---------------------------- MODULE Spec2Model ----------------------------
(***************************************************************************)
(* A model of pdf-stream-engine: the content-stream tokenizer              *)
(* (pdfTokenSplit driven by bufio.Scanner), the operand parser, the stream *)
(* parser (Parser.Parse), the text-extraction interpreter and the          *)
(* character-code decoders.                                                *)
(*                                                                         *)
(* Bytes are the integers 0..255.  A Go string and a Go []byte are both    *)
(* sequences of bytes; positions keep Go's 0-based numbering (At(d, p) is  *)
(* d[p]).  A float64 operand is modelled for the integer values: numeric   *)
(* tokens are [+-]digits, and fontSize*0.5 is compared after doubling.     *)
(***************************************************************************)
EXTENDS Integers, Sequences, FiniteSets, TLC

(***************************************************************************)
(* Characters.                                                             *)
(***************************************************************************)
AsciiChars ==
  << " ", "!", "\"", "#", "$", "%", "&", "'", "(", ")", "*", "+", ",", "-",
     ".", "/", "0", "1", "2", "3", "4", "5", "6", "7", "8", "9", ":", ";",
     "<", "=", ">", "?", "@", "A", "B", "C", "D", "E", "F", "G", "H", "I",
     "J", "K", "L", "M", "N", "O", "P", "Q", "R", "S", "T", "U", "V", "W",
     "X", "Y", "Z", "[", "\\", "]", "^", "_", "backtick", "a", "b", "c", "d", "e",
     "f", "g", "h", "i", "j", "k", "l", "m", "n", "o", "p", "q", "r", "s",
     "t", "u", "v", "w", "x", "y", "z", "{", "|", "}", "~" >>

OrdTable ==
  [c \in {AsciiChars[i] : i \in 1..Len(AsciiChars)} |->
     31 + (CHOOSE i \in 1..Len(AsciiChars) : AsciiChars[i] = c)]

\* The byte value of a character written as a one-character string.
Ord(c) ==
  CASE c = "\t" -> 9
    [] c = "\n" -> 10
    [] c = "\f" -> 12
    [] c = "\r" -> 13
    [] OTHER -> OrdTable[c]

\* The bytes of a text written as a tuple of one-character strings.
Str(t) == [i \in 1..Len(t) |-> Ord(t[i])]

cLParen == Ord("(")
cRParen == Ord(")")
cLAngle == Ord("<")
cRAngle == Ord(">")
cLBrack == Ord("[")
cRBrack == Ord("]")
cLBrace == Ord("{")
cRBrace == Ord("}")
cSlash == Ord("/")
cPercent == Ord("%")
cBackslash == Ord("\\")
cLF == Ord("\n")
cCR == Ord("\r")
cTab == Ord("\t")
cSpace == Ord(" ")
cStar == Ord("*")
cQuote == Ord("'")
cPlus == Ord("+")
cMinus == Ord("-")
cZero == Ord("0")

\* Go slices: d[lo:hi] and d[p], 0-based.
At(d, p) == d[p + 1]
Slice(d, lo, hi) == SubSeq(d, lo + 1, hi)

\* unicode.IsSpace(rune(b)) for a byte b: the Latin-1 white space.
IsSpace(b) == b \in {9, 10, 11, 12, 13, 32, 133, 160}

isDelimiter(b) ==
  b \in {cLParen, cRParen, cLAngle, cRAngle, cLBrack, cRBrack,
         cLBrace, cRBrace, cSlash, cPercent}

IsDigit(b) == b >= Ord("0") /\ b <= Ord("9")
IsOctal(b) == b >= Ord("0") /\ b <= Ord("7")
IsLetter(b) == (b >= Ord("a") /\ b <= Ord("z")) \/ (b >= Ord("A") /\ b <= Ord("Z"))
IsHexDigit(b) ==
  IsDigit(b) \/ (b >= Ord("a") /\ b <= Ord("f")) \/ (b >= Ord("A") /\ b <= Ord("F"))

(***************************************************************************)
(* The tokenizer, pdfTokenSplit(data, atEOF).  It returns                  *)
(* [adv, tok, isNil]: the bytes to consume, the token, and whether the     *)
(* token is nil (Go tells a nil token from an empty one).                  *)
(***************************************************************************)
SplitTok(adv, tok) == [adv |-> adv, tok |-> tok, isNil |-> FALSE]
SplitNil(adv) == [adv |-> adv, tok |-> << >>, isNil |-> TRUE]

\* The comment loop: from start, the position of the next LF or CR (or the end).
RECURSIVE SkipComment(_, _)
SkipComment(data, start) ==
  IF start < Len(data) /\ At(data, start) # cLF /\ At(data, start) # cCR
    THEN SkipComment(data, start + 1)
    ELSE start

\* The leading loop: skip white space and % comments; the start of a token.
RECURSIVE SkipLeading(_, _)
SkipLeading(data, start) ==
  IF start >= Len(data) THEN start
  ELSE IF IsSpace(At(data, start)) THEN SkipLeading(data, start + 1)
  ELSE IF At(data, start) = cPercent
    THEN SkipLeading(data, SkipComment(data, start + 1))
  ELSE start

\* The scan for the closing parenthesis without the nesting level.
RECURSIVE ScanParensFlat(_, _, _, _)
ScanParensFlat(data, pos, parenLevel, escaping) ==
  IF pos >= Len(data) THEN pos
  ELSE LET b == At(data, pos) IN
    IF escaping THEN ScanParensFlat(data, pos + 1, parenLevel, FALSE)
    ELSE IF b = cBackslash THEN ScanParensFlat(data, pos + 1, parenLevel, TRUE)
    ELSE IF b = cRParen THEN pos
    ELSE ScanParensFlat(data, pos + 1, parenLevel, FALSE)

\* The balanced-parenthesis loop.  The position of the closing parenthesis
\* that brings parenLevel to zero, or Len(data) when the data run out.
RECURSIVE ScanParens(_, _, _, _)
ScanParens(data, pos, parenLevel, escaping) ==
  IF pos >= Len(data) THEN pos
  ELSE LET b == At(data, pos) IN
    IF escaping THEN ScanParens(data, pos + 1, parenLevel, FALSE)
    ELSE IF b = cBackslash THEN ScanParens(data, pos + 1, parenLevel, TRUE)
    ELSE IF b = cLParen THEN ScanParens(data, pos + 1, parenLevel + 1, FALSE)
    ELSE IF b = cRParen
      THEN IF parenLevel - 1 = 0 THEN pos
           ELSE ScanParens(data, pos + 1, parenLevel - 1, FALSE)
    ELSE ScanParens(data, pos + 1, parenLevel, FALSE)

\* The dictionary loop.  The position after the >> that closes the
\* dictionary, or -1 when the loop ends without it.
RECURSIVE ScanDict(_, _, _)
ScanDict(data, pos, dictLevel) ==
  IF pos >= Len(data) THEN -1
  ELSE IF pos + 1 < Len(data) /\ At(data, pos) = cRAngle /\ At(data, pos + 1) = cRAngle
    THEN IF dictLevel - 1 = 0 THEN pos + 2
         ELSE ScanDict(data, pos + 2, dictLevel - 1)
  ELSE IF pos + 1 < Len(data) /\ At(data, pos) = cLAngle /\ At(data, pos + 1) = cLAngle
    THEN ScanDict(data, pos + 2, dictLevel + 1)
  ELSE IF At(data, pos) = cLParen
    THEN ScanDict(data, ScanParens(data, pos + 1, 1, FALSE) + 1, dictLevel)
  ELSE ScanDict(data, pos + 1, dictLevel)

\* The hex-string loop: [found, pos], the token's end; found is FALSE when
\* the data run out before a > or an invalid byte.
RECURSIVE ScanHex(_, _)
ScanHex(data, pos) ==
  IF pos >= Len(data) THEN [found |-> FALSE, pos |-> pos]
  ELSE LET b == At(data, pos) IN
    IF b = cRAngle THEN [found |-> TRUE, pos |-> pos + 1]
    ELSE IF IsHexDigit(b) \/ IsSpace(b) THEN ScanHex(data, pos + 1)
    ELSE [found |-> TRUE, pos |-> pos]

\* The name / number / operator loop: the position of the first white space
\* or delimiter at or after pos, or -1 when there is none.
RECURSIVE ScanRegular(_, _)
ScanRegular(data, pos) ==
  IF pos >= Len(data) THEN -1
  ELSE IF IsSpace(At(data, pos)) \/ isDelimiter(At(data, pos)) THEN pos
  ELSE ScanRegular(data, pos + 1)

\* The end of pdfTokenSplit, reached when no case returned a token.
SplitTail(data, atEOF, start) ==
  IF atEOF /\ Len(data) > start
    THEN SplitTok(Len(data), Slice(data, start, Len(data)))
    ELSE SplitNil(start)

pdfTokenSplit(data, atEOF) ==
  LET start == SkipLeading(data, 0) IN
  IF start = Len(data) THEN SplitNil(start)
  ELSE LET c == At(data, start) IN
    IF c = cLParen THEN
      LET e == ScanParens(data, start + 1, 1, FALSE) IN
      IF e < Len(data) THEN SplitTok(e + 1, Slice(data, start, e + 1))
      ELSE SplitTail(data, atEOF, start)
    ELSE IF c = cLAngle THEN
      IF start + 1 < Len(data) /\ At(data, start + 1) = cLAngle THEN
        LET e == ScanDict(data, start + 2, 1) IN
        IF e >= 0 THEN SplitTok(e, Slice(data, start, e))
        ELSE SplitTail(data, atEOF, start)
      ELSE
        LET h == ScanHex(data, start + 1) IN
        IF h.found THEN SplitTok(h.pos, Slice(data, start, h.pos))
        ELSE SplitTail(data, atEOF, start)
    ELSE IF c = cLBrack \/ c = cRBrack THEN
      SplitTok(start + 1, Slice(data, start, start + 1))
    ELSE IF c = cSlash THEN
      LET e == ScanRegular(data, start + 1) IN
      IF e >= 0 THEN SplitTok(e, Slice(data, start, e))
      ELSE SplitTail(data, atEOF, start)
    ELSE
      LET e == ScanRegular(data, start) IN
      IF e >= 0 THEN SplitTok(e, Slice(data, start, e))
      ELSE SplitTail(data, atEOF, start)

(***************************************************************************)
(* The operand parser.  An operand is a Go value of dynamic type float64,  *)
(* string, []byte or []any: [t, v] with t the type.  Literal strings,     *)
(* names, dictionary tokens and the array markers are all Go strings.      *)
(***************************************************************************)
Float(n) == [t |-> "float64", v |-> n]
String(s) == [t |-> "string", v |-> s]
Bytes(b) == [t |-> "bytes", v |-> b]
Array(a) == [t |-> "array", v |-> a]

IsString(o) == o.t = "string"
\* operand.(string) == "[" and == "]"
IsMarker(o, c) == o.t = "string" /\ o.v = << c >>

Ok(val) == [ok |-> TRUE, val |-> val]
Err == [ok |-> FALSE, val |-> Float(0)]

\* strconv.ParseFloat(s, 64) on the tokens of the model: an optional sign
\* and one or more decimal digits; every other token of the model's
\* alphabets is a syntax error.
RECURSIVE DecimalValue(_, _, _)
DecimalValue(s, i, acc) ==
  IF i >= Len(s) THEN acc
  ELSE DecimalValue(s, i + 1, 10 * acc + (At(s, i) - cZero))

ParseFloat(s) ==
  LET signed == Len(s) > 0 /\ At(s, 0) \in {cPlus, cMinus}
      digits == IF signed THEN Slice(s, 1, Len(s)) ELSE s
  IN IF Len(digits) > 0 /\ \A i \in 1..Len(digits) : IsDigit(digits[i])
       THEN Ok(Float(IF signed /\ At(s, 0) = cMinus
                       THEN 0 - DecimalValue(digits, 0, 0)
                       ELSE DecimalValue(digits, 0, 0)))
       ELSE Err

\* The octal-escape loop: the number of octal digits (1 to 3) at s[i..].
RECURSIVE OctalRun(_, _, _)
OctalRun(s, i, j) ==
  IF j < 3 /\ i + j < Len(s) /\ IsOctal(At(s, i + j))
    THEN OctalRun(s, i, j + 1)
    ELSE j

\* strconv.ParseInt(octal, 8, 32)
RECURSIVE OctalValue(_, _, _)
OctalValue(s, i, n) ==
  IF n = 0 THEN 0
  ELSE 8 * OctalValue(s, i, n - 1) + (At(s, i + n - 1) - cZero)

\* A byte that is not wrapped.
ToByteUnwrapped(val) == val

\* byte(val)
ToByte(val) == val % 256

\* The byte an escaped character c at s[i] writes, as a sequence (empty for
\* an ignored escape), for the characters other than octal digits.
EscapeByte(c) ==
  CASE c = Ord("n") -> << 10 >>
    [] c = Ord("r") -> << 13 >>
    [] c = Ord("t") -> << 9 >>
    [] c = Ord("b") -> << 8 >>
    [] c = Ord("f") -> << 12 >>
    [] c \in {cLParen, cRParen, cBackslash} -> << c >>
    [] OTHER -> << >>

\* The loop of parseLiteralString over s, the token without its parentheses.
RECURSIVE LiteralLoop(_, _, _, _)
LiteralLoop(s, i, escaping, b) ==
  IF i >= Len(s) THEN b
  ELSE LET c == At(s, i) IN
    IF escaping THEN
      IF IsOctal(c)
        THEN LET j == OctalRun(s, i, 1) IN
             LiteralLoop(s, i + (j - 1) + 1, FALSE,
                         Append(b, ToByte(OctalValue(s, i, j))))
        ELSE LiteralLoop(s, i + 1, FALSE, b \o EscapeByte(c))
    ELSE IF c = cBackslash THEN LiteralLoop(s, i + 1, TRUE, b)
    ELSE LiteralLoop(s, i + 1, FALSE, Append(b, c))

parseLiteralString(token) ==
  IF Len(token) < 2 \/ At(token, 0) # cLParen \/ At(token, Len(token) - 1) # cRParen
    THEN Err
    ELSE Ok(String(LiteralLoop(Slice(token, 1, Len(token) - 1), 0, FALSE, << >>)))

\* bytes.ReplaceAll(s, c, "") for the four bytes parseHexString strips.
StripHexSpace(s) == SelectSeq(s, LAMBDA b : b \notin {cSpace, cLF, cCR, cTab})

HexDigitValue(b) ==
  IF IsDigit(b) THEN b - cZero
  ELSE IF b >= Ord("a") /\ b <= Ord("f") THEN b - Ord("a") + 10
  ELSE b - Ord("A") + 10

\* Ensure even length, pad with 0 if not.
PadHex(s) == IF Len(s) % 2 # 0 THEN Append(s, cZero) ELSE s

\* The decoding loop: strconv.ParseUint(s[i:i+2], 16, 8) for each pair.
RECURSIVE HexLoop(_, _, _)
HexLoop(s, i, b) ==
  IF i >= Len(s) THEN Ok(Bytes(b))
  ELSE IF IsHexDigit(At(s, i)) /\ IsHexDigit(At(s, i + 1))
    THEN HexLoop(s, i + 2,
                 Append(b, 16 * HexDigitValue(At(s, i)) + HexDigitValue(At(s, i + 1))))
    ELSE Err

parseHexString(token) ==
  IF Len(token) < 2 \/ At(token, 0) # cLAngle \/ At(token, Len(token) - 1) # cRAngle
    THEN Err
    ELSE HexLoop(PadHex(StripHexSpace(Slice(token, 1, Len(token) - 1))), 0, << >>)

isOperator(token) ==
  /\ Len(token) # 0
  /\ \A i \in 1..Len(token) :
       IsLetter(token[i]) \/ token[i] = cStar \/ token[i] = cQuote

parseOperand(token) ==
  IF Len(token) = 0 THEN Err
  ELSE LET c == At(token, 0) IN
    IF c = cLParen THEN parseLiteralString(token)
    ELSE IF c = cLAngle THEN
      IF Len(token) > 1 /\ At(token, 1) = cLAngle
        THEN Ok(String(token))
        ELSE parseHexString(token)
    ELSE IF c = cSlash THEN Ok(String(Slice(token, 1, Len(token))))
    ELSE IF c = cLBrack \/ c = cRBrack THEN
      IF token = << cLBrack >> \/ token = << cRBrack >> THEN Ok(String(token)) ELSE Err
    ELSE ParseFloat(token)

(***************************************************************************)
(* The stream parser.  The locals of Parser.Parse are the record           *)
(* [operations, operands, arrayStack, arrayLevel, err]; ParseToken is one  *)
(* pass through the body of its loop, for the token Scan delivered.        *)
(***************************************************************************)
Operation(name, operands) == [Name |-> name, Operands |-> operands]

ParseStart ==
  [operations |-> << >>, operands |-> << >>, arrayStack |-> << >>,
   arrayLevel |-> 0, err |-> ""]

\* Add operand: to the current array, or to the main operand stack.
AddOperand(ps, operand) ==
  IF ps.arrayLevel > 0
    THEN [ps EXCEPT !.arrayStack[Len(ps.arrayStack)] = Append(@, operand)]
    ELSE [ps EXCEPT !.operands = Append(@, operand)]

\* Close current array.
CloseArray(ps) ==
  IF ps.arrayLevel = 0
    THEN [ps EXCEPT !.operations = << >>,
                    !.err = "unexpected ']' outside of array"]
    ELSE LET closedArray == ps.arrayStack[Len(ps.arrayStack)]
             popped == SubSeq(ps.arrayStack, 1, Len(ps.arrayStack) - 1)
             level == ps.arrayLevel - 1
         IN IF level = 0
              THEN [ps EXCEPT !.arrayLevel = level, !.arrayStack = popped,
                              !.operands = Append(@, Array(closedArray))]
              ELSE [ps EXCEPT !.arrayLevel = level,
                              !.arrayStack =
                                 [popped EXCEPT ![Len(popped)] =
                                    Append(@, Array(closedArray))]]

\* A bad operand that empties the operand buffer.
SkipOperandClearing(ps) == [ps EXCEPT !.operands = << >>]

\* A bad operand that ends the parse.
SkipOperandFatal(ps) ==
  [ps EXCEPT !.operations = << >>, !.err = "unparsable operand"]

\* An unparsable operand: a warning is printed and the loop continues.
SkipOperand(ps) == ps

ParseToken(ps, token) ==
  IF Len(token) = 0 THEN ps
  ELSE IF ps.arrayLevel = 0 /\ isOperator(token)
    THEN [ps EXCEPT !.operations = Append(@, Operation(token, ps.operands)),
                    !.operands = << >>]
  ELSE LET r == parseOperand(token) IN
    IF ~r.ok THEN SkipOperand(ps)
    ELSE IF IsMarker(r.val, cLBrack)
      THEN [ps EXCEPT !.arrayStack = Append(@, << >>),
                      !.arrayLevel = @ + 1]
    ELSE IF IsMarker(r.val, cRBrack) THEN CloseArray(ps)
    ELSE AddOperand(ps, r.val)

\* The end of Parse taking an array left open for closed.
ParseReturnLenient(ps, scanErr) ==
  IF scanErr # "" THEN [ps EXCEPT !.operations = << >>, !.err = "scanner error"]
  ELSE ps

\* The end of Parse, after Scan returned false with scanner error scanErr.
ParseReturn(ps, scanErr) ==
  IF scanErr # "" THEN [ps EXCEPT !.operations = << >>, !.err = "scanner error"]
  ELSE IF ps.arrayLevel > 0
    THEN [ps EXCEPT !.operations = << >>, !.err = "unclosed array at end of stream"]
  ELSE ps

(***************************************************************************)
(* Encoding tables and fonts.  A rune is its code point; a Go string holds *)
(* bytes, so WriteRune appends the rune's UTF-8 encoding.                  *)
(***************************************************************************)
\* utf8.AppendRune for the Basic Multilingual Plane (surrogates encode as U+FFFD).
UTF8(r) ==
  IF r < 128 THEN << r >>
  ELSE IF r < 2048 THEN << 192 + (r \div 64), 128 + (r % 64) >>
  ELSE IF r >= 55296 /\ r <= 57343 THEN << 239, 191, 189 >>
  ELSE << 224 + (r \div 4096), 128 + ((r \div 64) % 64), 128 + (r % 64) >>

\* winAnsiToUnicode: bytes 0x80-0x9F of Windows code page 1252.
winAnsiToUnicode ==
  (128 :> 8364) @@ (130 :> 8218) @@ (131 :> 402) @@ (132 :> 8222) @@
  (133 :> 8230) @@ (134 :> 8224) @@ (135 :> 8225) @@ (136 :> 710) @@
  (137 :> 8240) @@ (138 :> 352) @@ (139 :> 8249) @@ (140 :> 338) @@
  (142 :> 381) @@ (145 :> 8216) @@ (146 :> 8217) @@ (147 :> 8220) @@
  (148 :> 8221) @@ (149 :> 8226) @@ (150 :> 8211) @@ (151 :> 8212) @@
  (152 :> 732) @@ (153 :> 8482) @@ (154 :> 353) @@ (155 :> 8250) @@
  (156 :> 339) @@ (158 :> 382) @@ (159 :> 376)

RECURSIVE DecodeWinAnsi(_)
DecodeWinAnsi(data) ==
  IF data = << >> THEN << >>
  ELSE LET byteVal == Head(data) IN
    (IF byteVal < 128 THEN << byteVal >>
     ELSE IF byteVal \in DOMAIN winAnsiToUnicode
       THEN UTF8(winAnsiToUnicode[byteVal])
       ELSE UTF8(byteVal))
    \o DecodeWinAnsi(Tail(data))

\* pdfDocToUnicode: bytes 0x80-0x9F of PDFDocEncoding.
pdfDocToUnicode ==
  (128 :> 8226) @@ (129 :> 8224) @@ (130 :> 8225) @@ (131 :> 8230) @@
  (132 :> 8212) @@ (133 :> 8211) @@ (134 :> 402) @@ (135 :> 8260) @@
  (136 :> 8249) @@ (137 :> 8250) @@ (138 :> 8722) @@ (139 :> 8240) @@
  (140 :> 8222) @@ (141 :> 8220) @@ (142 :> 8221) @@ (143 :> 8216) @@
  (144 :> 8217) @@ (145 :> 8218) @@ (146 :> 8482) @@ (147 :> 64257) @@
  (148 :> 64258) @@ (149 :> 321) @@ (150 :> 338) @@ (151 :> 352) @@
  (152 :> 376) @@ (153 :> 381) @@ (154 :> 305) @@ (155 :> 322) @@
  (156 :> 339) @@ (157 :> 353) @@ (158 :> 382) @@ (159 :> 65533)

\* What DecodePDFDoc writes for one byte.
pdfDocByteLatin1(byteVal) == IF byteVal < 128 THEN << byteVal >> ELSE UTF8(byteVal)
pdfDocByte(byteVal) ==
  IF byteVal < 128 THEN << byteVal >>
  ELSE IF byteVal < 160
    THEN IF byteVal \in DOMAIN pdfDocToUnicode
           THEN UTF8(pdfDocToUnicode[byteVal])
           ELSE UTF8(65533)
  ELSE UTF8(byteVal)

RECURSIVE DecodePDFDoc(_)
DecodePDFDoc(data) ==
  IF data = << >> THEN << >>
  ELSE pdfDocByte(Head(data)) \o DecodePDFDoc(Tail(data))

RECURSIVE DecodeMacRoman(_)
DecodeMacRoman(data) ==
  IF data = << >> THEN << >>
  ELSE UTF8(Head(data)) \o DecodeMacRoman(Tail(data))

\* A CMap is its mappings: a function from hex keys to Go strings.
HexDigits == Str(<< "0", "1", "2", "3", "4", "5", "6", "7",
                    "8", "9", "a", "b", "c", "d", "e", "f" >>)

\* fmt.Sprintf("%02x", b)
Hex02(b) == << HexDigits[(b \div 16) + 1], HexDigits[(b % 16) + 1] >>

RECURSIVE HexKey(_)
HexKey(code) == IF code = << >> THEN << >> ELSE Hex02(Head(code)) \o HexKey(Tail(code))

\* CMap.Lookup: [ok, unicode]
CMapLookup(cm, code) ==
  IF HexKey(code) \in DOMAIN cm
    THEN [ok |-> TRUE, unicode |-> cm[HexKey(code)]]
    ELSE [ok |-> FALSE, unicode |-> << >>]

\* CMap.DecodeString: the 2-byte code, else the 1-byte code, else U+FFFD.
RECURSIVE CMapDecodeString(_, _, _)
CMapDecodeString(cm, data, i) ==
  IF i >= Len(data) THEN << >>
  ELSE IF i + 1 < Len(data) /\ CMapLookup(cm, Slice(data, i, i + 2)).ok
    THEN CMapLookup(cm, Slice(data, i, i + 2)).unicode \o CMapDecodeString(cm, data, i + 2)
  ELSE IF CMapLookup(cm, << At(data, i) >>).ok
    THEN CMapLookup(cm, << At(data, i) >>).unicode \o CMapDecodeString(cm, data, i + 1)
  ELSE UTF8(65533) \o CMapDecodeString(cm, data, i + 1)

\* A Font: its name, its EncodingType and its ToUnicode CMap (hasToUnicode
\* is ToUnicode != nil).
NewFont(name) ==
  [Name |-> name, Encoding |-> "EncodingUnknown", hasToUnicode |-> FALSE,
   ToUnicode |-> << >>]

\* Font.DecodeText: the ToUnicode CMap when there is one, else the decoder
\* of the encoding, the bytes themselves for the other encodings.
FontDecodeText(f, data) ==
  IF f.hasToUnicode THEN CMapDecodeString(f.ToUnicode, data, 0)
  ELSE IF f.Encoding = "EncodingWinAnsi" THEN DecodeWinAnsi(data)
  ELSE IF f.Encoding = "EncodingPDFDoc" THEN DecodePDFDoc(data)
  ELSE data

\* A FontRegistry: [isNil, fonts, defaultFont]; fonts is a map by name.
NewFontRegistry ==
  [isNil |-> FALSE, fonts |-> << >>,
   defaultFont |-> [NewFont(Str(<< "D", "e", "f", "a", "u", "l", "t", "F", "o", "n", "t" >>))
                      EXCEPT !.Encoding = "EncodingWinAnsi"]]

NilFontRegistry == [NewFontRegistry EXCEPT !.isNil = TRUE]

\* fr.fonts[font.Name] = font
Register(fr, font) ==
  [fr EXCEPT !.fonts =
     [n \in (DOMAIN fr.fonts) \cup {font.Name} |->
        IF n = font.Name THEN font ELSE fr.fonts[n]]]

RegisterSimple(fr, name, encoding) ==
  Register(fr, [NewFont(name) EXCEPT !.Encoding = encoding])

RegisterWithToUnicode(fr, name, cmap) ==
  Register(fr, [NewFont(name) EXCEPT !.ToUnicode = cmap, !.hasToUnicode = TRUE,
                                     !.Encoding = "EncodingCustom"])

\* MustLookup: the font registered under name, else the default font.
MustLookup(fr, name) ==
  IF name \in DOMAIN fr.fonts THEN fr.fonts[name] ELSE fr.defaultFont

(***************************************************************************)
(* The interpreter.  Its fields are the record                             *)
(* [textBuilder, inTextObject, textState, stateStack]; processOperation    *)
(* returns the fields after the operation and the error it returns ("" for *)
(* nil).                                                                   *)
(***************************************************************************)
\* A default text state with another font size.
NewTextStateSized ==
  [FontName |-> Str(<< "d", "e", "f", "a", "u", "l", "t" >>), FontSize |-> 12, LastY |-> 0]

NewTextState ==
  [FontName |-> Str(<< "d", "e", "f", "a", "u", "l", "t" >>), FontSize |-> 1, LastY |-> 0]

\* TextState.Copy
\* A copy that forgets the vertical position.
CopyWithoutLastY(ts) == [FontName |-> ts.FontName, FontSize |-> ts.FontSize, LastY |-> 0]

Copy(ts) == [FontName |-> ts.FontName, FontSize |-> ts.FontSize, LastY |-> ts.LastY]

NewInterpreter ==
  [textBuilder |-> << >>, inTextObject |-> FALSE, textState |-> NewTextState,
   stateStack |-> << >>]

\* The operator names the interpreter switches on.
op_q == Str(<< "q" >>)
op_Q == Str(<< "Q" >>)
op_BT == Str(<< "B", "T" >>)
op_ET == Str(<< "E", "T" >>)
op_Tf == Str(<< "T", "f" >>)
op_Tj == Str(<< "T", "j" >>)
op_TJ == Str(<< "T", "J" >>)
op_Tstar == Str(<< "T", "*" >>)
op_Tm == Str(<< "T", "m" >>)
op_Td == Str(<< "T", "d" >>)
op_TD == Str(<< "T", "D" >>)
op_Quote == Str(<< "'" >>)
op_DQuote == Str(<< "\"" >>)

\* isTextShowingOp counting the positioning operators in.
isTextShowingOpOrMove(opName) ==
  opName \in {op_Tj, op_TJ, op_Quote, op_DQuote, op_Tstar, op_Td, op_TD, op_Tm}

isTextShowingOp(opName) ==
  opName \in {op_Tj, op_TJ,
              op_Quote, op_DQuote}

\* operandToFloat: a float64, or a string that ParseFloat accepts.
operandToFloat(val) ==
  IF val.t = "float64" THEN Ok(val)
  ELSE IF val.t = "string" THEN ParseFloat(val.v)
  ELSE Err

Abs(n) == IF n < 0 THEN 0 - n ELSE n

Done(in) == [in |-> in, err |-> ""]
Fail(in, err) == [in |-> in, err |-> err]

WriteString(in, s) == [in EXCEPT !.textBuilder = @ \o s]

\* showText: a string is written as it is, a []byte through DecodeWinAnsi.
showText(in, val) ==
  IF val.t = "string" THEN Done(WriteString(in, val.v))
  ELSE IF val.t = "bytes" THEN Done(WriteString(in, DecodeWinAnsi(val.v)))
  ELSE Fail(in, "operand not a string or []byte")

\* A loop of TJ that shows the strings only.
RECURSIVE ShowArrayStringsOnly(_, _)
ShowArrayStringsOnly(in, arr) ==
  IF arr = << >> THEN Done(in)
  ELSE LET val == Head(arr) IN
    IF val.t = "string"
      THEN ShowArrayStringsOnly(WriteString(in, val.v), Tail(arr))
      ELSE ShowArrayStringsOnly(in, Tail(arr))

\* The loop of TJ over the array: strings and []bytes are shown, numbers
\* and everything else are passed over.
RECURSIVE ShowArray(_, _)
ShowArray(in, arr) ==
  IF arr = << >> THEN Done(in)
  ELSE LET val == Head(arr) IN
    IF val.t \in {"string", "bytes"}
      THEN LET r == showText(in, val) IN
           IF r.err # "" THEN r ELSE ShowArray(r.in, Tail(arr))
      ELSE ShowArray(in, Tail(arr))

\* Td and TD with the space threshold met by tx = 1.0.
MoveTextInclusive(in, op) ==
  IF Len(op.Operands) < 2 THEN Done(in)
  ELSE LET tx == operandToFloat(op.Operands[1])
           ty == operandToFloat(op.Operands[2])
       IN IF tx.ok /\ ty.ok
            THEN IF ty.val.v # 0
                   THEN Done([WriteString(in, << cLF >>)
                                EXCEPT !.textState.LastY = @ + ty.val.v])
                 ELSE IF tx.val.v >= 1
                   THEN Done(WriteString(in, << cSpace >>))
                 ELSE Done(in)
            ELSE Done(in)

\* Td and TD: the same code twice.
MoveText(in, op) ==
  IF Len(op.Operands) < 2 THEN Done(in)
  ELSE LET tx == operandToFloat(op.Operands[1])
           ty == operandToFloat(op.Operands[2])
       IN IF tx.ok /\ ty.ok
            THEN IF ty.val.v # 0
                   THEN Done([WriteString(in, << cLF >>)
                                EXCEPT !.textState.LastY = @ + ty.val.v])
                 ELSE IF tx.val.v > 1
                   THEN Done(WriteString(in, << cSpace >>))
                 ELSE Done(in)
            ELSE Done(in)

\* Tm with a newline also when the move is exactly half the font size.
SetTextMatrixInclusive(in, op) ==
  IF Len(op.Operands) < 6 THEN Done(in)
  ELSE LET f == operandToFloat(op.Operands[6]) IN
       IF f.ok
         THEN Done([(IF 2 * Abs(f.val.v - in.textState.LastY) >= in.textState.FontSize
                       THEN WriteString(in, << cLF >>)
                       ELSE in)
                      EXCEPT !.textState.LastY = f.val.v])
         ELSE Done(in)

\* Tm: |f - LastY| > FontSize * 0.5, both sides doubled.
SetTextMatrix(in, op) ==
  IF Len(op.Operands) < 6 THEN Done(in)
  ELSE LET f == operandToFloat(op.Operands[6]) IN
       IF f.ok
         THEN Done([(IF 2 * Abs(f.val.v - in.textState.LastY) > in.textState.FontSize
                       THEN WriteString(in, << cLF >>)
                       ELSE in)
                      EXCEPT !.textState.LastY = f.val.v])
         ELSE Done(in)

\* Tf setting the font name before it has checked the size.
SetFontEager(in, op) ==
  IF Len(op.Operands) < 2 THEN Fail(in, "Tf expects 2 operands")
  ELSE IF op.Operands[1].t # "string" THEN Fail(in, "Tf font name not a string")
  ELSE LET fontSize == operandToFloat(op.Operands[2])
           named == [in EXCEPT !.textState.FontName = op.Operands[1].v]
       IN IF ~fontSize.ok THEN Fail(named, "Tf font size not a number")
          ELSE Done([named EXCEPT !.textState.FontSize = fontSize.val.v])

SetFont(in, op) ==
  IF Len(op.Operands) < 2 THEN Fail(in, "Tf expects 2 operands")
  ELSE IF op.Operands[1].t # "string" THEN Fail(in, "Tf font name not a string")
  ELSE LET fontSize == operandToFloat(op.Operands[2]) IN
       IF ~fontSize.ok THEN Fail(in, "Tf font size not a number")
       ELSE Done([in EXCEPT !.textState.FontName = op.Operands[1].v,
                            !.textState.FontSize = fontSize.val.v])

\* The operators ' and " showing their string, the others passed over.
IgnoreButQuotes(in, op) ==
  IF op.Name \in {op_Quote, op_DQuote} /\ Len(op.Operands) >= 1
    THEN showText(in, op.Operands[Len(op.Operands)])
    ELSE Done(in)

\* The operators that are passed over: rg, RG, ..., Do, and default.
Ignore(in, op) == Done(in)

\* Q closing the text object as well.
RestoreClosingText(in) ==
  IF Len(in.stateStack) = 0 THEN Fail(in, "unbalanced 'Q' operator")
  ELSE Done([in EXCEPT !.textState = in.stateStack[Len(in.stateStack)],
                       !.stateStack = SubSeq(@, 1, Len(@) - 1),
                       !.inTextObject = FALSE])

\* Q: restore graphics state.
Restore(in) ==
  IF Len(in.stateStack) = 0 THEN Fail(in, "unbalanced 'Q' operator")
  ELSE Done([in EXCEPT !.textState = in.stateStack[Len(in.stateStack)],
                       !.stateStack = SubSeq(@, 1, Len(@) - 1)])

processOperation(in, op) ==
  IF ~in.inTextObject /\ isTextShowingOp(op.Name)
    THEN Fail(in, "text showing op outside BT/ET block")
  ELSE IF op.Name = op_q
    THEN Done([in EXCEPT !.stateStack = Append(@, Copy(in.textState))])
  ELSE IF op.Name = op_Q THEN Restore(in)
  ELSE IF op.Name = op_BT
    THEN Done([in EXCEPT !.inTextObject = TRUE,
                         !.textState = [NewTextState EXCEPT !.LastY = 0]])
  ELSE IF op.Name = op_ET
    THEN Done([in EXCEPT !.inTextObject = FALSE])
  ELSE IF op.Name = op_Tf THEN SetFont(in, op)
  ELSE IF op.Name = op_Tj
    THEN IF Len(op.Operands) < 1 THEN Fail(in, "Tj expects 1 operand")
         ELSE showText(in, op.Operands[1])
  ELSE IF op.Name = op_TJ
    THEN IF Len(op.Operands) < 1 THEN Fail(in, "TJ expects 1 operand")
         ELSE IF op.Operands[1].t # "array" THEN Fail(in, "TJ operand not an array")
         ELSE ShowArray(in, op.Operands[1].v)
  ELSE IF op.Name = op_Tstar
    THEN Done([WriteString(in, << cLF >>)
                 EXCEPT !.textState.LastY = @ - in.textState.FontSize])
  ELSE IF op.Name = op_Tm THEN SetTextMatrix(in, op)
  ELSE IF op.Name \in {op_Td, op_TD}
    THEN MoveText(in, op)
  ELSE Ignore(in, op)

\* The length of the white-space rune that s[i:] starts with, 0 when it
\* starts with none (unicode.IsSpace over the UTF-8 decoding).
SpaceRuneAt(s, i) ==
  LET n == Len(s) - i
      b(k) == At(s, i + k)
  IN IF n >= 1 /\ b(0) \in {9, 10, 11, 12, 13, 32} THEN 1
     ELSE IF n >= 2 /\ b(0) = 194 /\ b(1) \in {133, 160} THEN 2
     ELSE IF n >= 3 /\ (\/ (b(0) = 225 /\ b(1) = 154 /\ b(2) = 128)
                        \/ (b(0) = 226 /\ b(1) = 128 /\ b(2) \in (128..138) \cup {168, 169, 175})
                        \/ (b(0) = 226 /\ b(1) = 129 /\ b(2) = 159)
                        \/ (b(0) = 227 /\ b(1) = 128 /\ b(2) = 128)) THEN 3
     ELSE 0

RECURSIVE TrimLeft(_)
TrimLeft(s) ==
  IF s # << >> /\ SpaceRuneAt(s, 0) > 0
    THEN TrimLeft(Slice(s, SpaceRuneAt(s, 0), Len(s)))
    ELSE s

\* The length of the white-space rune that s ends with, 0 when none.
SpaceRuneAtEnd(s) ==
  IF Len(s) >= 1 /\ SpaceRuneAt(s, Len(s) - 1) = 1 THEN 1
  ELSE IF Len(s) >= 2 /\ SpaceRuneAt(s, Len(s) - 2) = 2 THEN 2
  ELSE IF Len(s) >= 3 /\ SpaceRuneAt(s, Len(s) - 3) = 3 THEN 3
  ELSE 0

RECURSIVE TrimRight(_)
TrimRight(s) ==
  IF s # << >> /\ SpaceRuneAtEnd(s) > 0
    THEN TrimRight(Slice(s, 0, Len(s) - SpaceRuneAtEnd(s)))
    ELSE s

\* strings.TrimSpace; a text that starts and ends with ASCII bytes that are
\* no white space is left as it is.
TrimSpace(s) ==
  IF /\ s # << >>
     /\ s[1] < 128 /\ ~IsSpace(s[1])
     /\ s[Len(s)] < 128 /\ ~IsSpace(s[Len(s)])
    THEN s
    ELSE TrimRight(TrimLeft(s))

\* strings.ReplaceAll(s, "\r\n", "\n")
RECURSIVE ReplaceCRLF(_)
ReplaceCRLF(s) ==
  IF s = << >> THEN << >>
  ELSE IF Len(s) >= 2 /\ s[1] = cCR /\ s[2] = cLF
    THEN << cLF >> \o ReplaceCRLF(Slice(s, 2, Len(s)))
  ELSE << s[1] >> \o ReplaceCRLF(Tail(s))

\* GetText emptying the buffer it returns.
GetTextResetting(in) ==
  [in |-> [in EXCEPT !.textBuilder = << >>],
   text |-> ReplaceCRLF(TrimSpace(in.textBuilder))]

\* GetText without the trimming.
GetTextUntrimmed(in) == [in |-> in, text |-> ReplaceCRLF(in.textBuilder)]

\* Interpreter.GetText: the interpreter after the call and the text returned.
GetText(in) == [in |-> in, text |-> ReplaceCRLF(TrimSpace(in.textBuilder))]

\* ProcessStream returning at the first error instead of logging it.
ProcessStreamStepReturning(in, op) ==
  LET r == processOperation(in, op)
  IN [in |-> r.in, err |-> r.err, logged |-> r.err # "", continue |-> r.err = ""]

\* The loop body of ProcessStream: the operation is processed, an error is
\* logged as a warning, and the loop goes on to the next operation.
ProcessStreamStep(in, op) ==
  LET r == processOperation(in, op)
  IN [in |-> r.in, err |-> r.err, logged |-> r.err # "", continue |-> TRUE]

(***************************************************************************)
(* State.                                                                  *)
(*   stream      the bytes given to ExtractText / to the tokenizer         *)
(*   registry    the FontRegistry given to ExtractTextWithFonts            *)
(*   scanner     the bufio.Scanner: reader (the bytes not yet read),       *)
(*               buf (s.buf[s.start:s.end]), err (s.err: "", "EOF" or a    *)
(*               read error), fill (Scan is at its read step), empties     *)
(*   lastSplit   what the last call of pdfTokenSplit returned              *)
(*   operand     what the last call of parseOperand returned               *)
(*   parser      the locals of Parser.Parse                                *)
(*   interp      the Interpreter's fields                                  *)
(*   opIdx       the number of operations ProcessStream has handled        *)
(*   todo        the number of operations still ahead of ProcessStream     *)
(*               when it runs on an operation list chosen step by step     *)
(*   lastOp, lastErr  the operation processOperation last handled and the  *)
(*               error it returned                                         *)
(*   warnings    the warnings ProcessStream logged                         *)
(*   result      what the top-level call returned: [text, err]             *)
(*   saved       history: for every q not yet matched by a Q, the          *)
(*               TextState and the stack depth at that q                   *)
(*   opSet       the set ProcessStream's operations are chosen from        *)
(*   pc          where the call is                                         *)
(*   mu          the registry's sync.RWMutex: the number of read locks      *)
(*               held, the goroutine that has called Lock (0 for none) and  *)
(*               whether it has got the lock                                *)
(*   thr         for each goroutine, the registry call it is in: [pc, call, *)
(*               font, name, ret]                                           *)
(*   latest      history: the font last registered under each name since    *)
(*               the last Clear                                             *)
(*   calls       the number of registry calls made                          *)
(*   program     the words of the CMap program given to ParseToUnicodeCMap  *)
(*   cmapScanner the number of words its Scanner has delivered              *)
(*   cmap        the mappings of the CMap                                   *)
(*   cmapPc      where ParseToUnicodeCMap is                                *)
(*   cmapErr     the error it returns                                       *)
(*   decode      the locals of CMap.DecodeString: [data, i, result]         *)
(***************************************************************************)
VARIABLES stream, registry, scanner, lastSplit, operand, parser, interp,
          opIdx, todo, lastOp, lastErr, warnings, result, saved, opSet, pc,
          mu, thr, latest, calls,
          program, cmapScanner, cmap, cmapPc, cmapErr, decode

pipevars == << stream, registry, scanner, lastSplit, operand, parser, interp,
               opIdx, todo, lastOp, lastErr, warnings, result, saved, opSet, pc >>

regvars == << mu, thr, latest, calls >>

cmapvars == << program, cmapScanner, cmap, cmapPc, cmapErr, decode >>

libvars == << regvars, cmapvars >>

vars == << pipevars, libvars >>

\* The goroutines that use the registry.
Threads == {1, 2}

\* A sync.RWMutex that nobody holds.
NewRWMutex == [readers |-> 0, writer |-> 0]

\* No font: a nil *Font.
NilFont == [NewFont(<< >>) EXCEPT !.Encoding = "nil"]

\* A goroutine that is in no call.
IdleThread == [pc |-> "idle", call |-> "", font |-> NilFont, name |-> << >>,
               ret |-> << >>]

\* The registry's lock and callers at rest.
RegistryIdle ==
  /\ mu = NewRWMutex
  /\ thr = [t \in Threads |-> IdleThread]
  /\ latest = << >>
  /\ calls = 0

\* No CMap being parsed or used.
CMapIdle ==
  /\ program = << >>
  /\ cmapScanner = 0
  /\ cmap = << >>
  /\ cmapPc = "idle"
  /\ cmapErr = ""
  /\ decode = [data |-> << >>, i |-> 0, result |-> << >>]

NoOp == Operation(<< >>, << >>)
NoResult == [text |-> << >>, err |-> ""]
NoSplit == SplitNil(0)

\* bufio.NewScanner(reader)
NewScanner(data) ==
  [reader |-> data, buf |-> << >>, err |-> "", fill |-> TRUE, empties |-> 0]

\* The state at the call ExtractTextWithFonts(data, fr).
CallExtract(data, fr) ==
  /\ stream = data
  /\ registry = fr
  /\ RegistryIdle
  /\ CMapIdle
  /\ scanner = NewScanner(data)
  /\ lastSplit = NoSplit
  /\ operand = Err
  /\ parser = ParseStart
  /\ interp = NewInterpreter
  /\ opIdx = 0
  /\ todo = 0
  /\ lastOp = NoOp
  /\ lastErr = ""
  /\ warnings = 0
  /\ result = NoResult
  /\ saved = << >>
  /\ opSet = "none"
  /\ pc = "scan"

\* bufio's maxConsecutiveEmptyReads
maxConsecutiveEmptyReads == 100

\* Scan's read step on a bytes.Reader: everything that is left in one Read,
\* or io.EOF when nothing is left.
ReadAll(s) ==
  IF s.reader = << >>
    THEN [s EXCEPT !.err = "EOF", !.fill = FALSE]
    ELSE [s EXCEPT !.buf = @ \o s.reader, !.reader = << >>, !.fill = FALSE]

ScanRead ==
  /\ pc = "scan"
  /\ scanner.fill
  /\ scanner' = ReadAll(scanner)
  /\ UNCHANGED << libvars, stream, registry, lastSplit, operand, parser, interp, opIdx,
                  todo, lastOp, lastErr, warnings, result, saved, opSet, pc >>

\* Scan's read step when the reader fails: s.err is the reader's error.
ScanReadFail ==
  /\ pc = "scan"
  /\ scanner.fill
  /\ scanner' = [scanner EXCEPT !.err = "read error", !.fill = FALSE]
  /\ UNCHANGED << libvars, stream, registry, lastSplit, operand, parser, interp, opIdx,
                  todo, lastOp, lastErr, warnings, result, saved, opSet, pc >>

\* scanner.Err(): io.EOF is no error.
ScannerErr(s) == IF s.err = "EOF" THEN "" ELSE s.err

\* Scan's split step and what follows it in Parse: when a token comes back,
\* one pass through the body of Parse's loop; when none does, either the
\* read step or (at the end of input) the end of Parse.
ScanSplit ==
  /\ pc = "scan"
  /\ ~scanner.fill
  /\ LET r == pdfTokenSplit(scanner.buf, scanner.err # "")
         rest == Slice(scanner.buf, r.adv, Len(scanner.buf))
         stuck == ~r.isNil /\ scanner.err # "" /\ r.adv = 0
         empties == IF r.isNil THEN scanner.empties
                    ELSE IF stuck THEN scanner.empties + 1 ELSE 0
     IN /\ lastSplit' = r
        /\ scanner' = [scanner EXCEPT
                         !.buf = rest,
                         !.empties = empties,
                         !.fill = IF r.isNil THEN scanner.err = ""
                                  ELSE rest = << >> /\ scanner.err = ""]
        /\ IF ~r.isNil
             THEN IF empties > maxConsecutiveEmptyReads
                    THEN /\ pc' = "panic"
                         /\ parser' = parser
                    ELSE /\ parser' = ParseToken(parser, r.tok)
                         /\ pc' = IF parser'.err # "" THEN "interp" ELSE "scan"
             ELSE IF scanner.err # ""
                    THEN /\ parser' = ParseReturn(parser, ScannerErr(scanner))
                         /\ pc' = "interp"
                    ELSE /\ parser' = parser
                         /\ pc' = "scan"
  /\ UNCHANGED << libvars, stream, registry, operand, interp, opIdx, todo, lastOp,
                  lastErr, warnings, result, saved, opSet >>

\* The history of unmatched q operations after op is processed in state in.
SavedAfter(sv, in, op) ==
  IF op.Name = op_q
    THEN Append(sv, [ts |-> in.textState, depth |-> Len(in.stateStack)])
  ELSE IF op.Name = op_Q /\ sv # << >> THEN SubSeq(sv, 1, Len(sv) - 1)
  ELSE sv

\* One pass through ProcessStream's loop over the operations Parse returned.
ProcessNext ==
  /\ pc = "interp"
  /\ parser.err = ""
  /\ opIdx < Len(parser.operations)
  /\ LET op == parser.operations[opIdx + 1]
         r == ProcessStreamStep(interp, op)
     IN /\ interp' = r.in
        /\ lastOp' = op
        /\ lastErr' = r.err
        /\ warnings' = IF r.logged THEN warnings + 1 ELSE warnings
        /\ opIdx' = IF r.continue THEN opIdx + 1 ELSE Len(parser.operations)
        /\ saved' = SavedAfter(saved, interp, op)
  /\ UNCHANGED << libvars, stream, registry, scanner, lastSplit, operand, parser,
                  todo, result, opSet, pc >>

\* What ProcessStream returns: the parser's error wrapped, or nil.
ProcessStreamErr(ps) == IF ps.err # "" THEN "parser failed" ELSE ""

\* ExtractTextWithFonts handing ProcessStream's error to its caller.
ExtractPropagating(in, procErr) ==
  IF procErr # "" THEN [text |-> << >>, err |-> procErr]
  ELSE [text |-> GetText(in).text, err |-> ""]

\* What ExtractTextWithFonts returns for ProcessStream's error procErr:
\* the text of GetText on both paths, and never an error.
ExtractTextWithFonts(in, procErr) == [text |-> GetText(in).text, err |-> ""]

\* ProcessStream returns and ExtractTextWithFonts returns GetText().
ExtractReturn ==
  /\ pc = "interp"
  /\ parser.err # "" \/ opIdx = Len(parser.operations)
  /\ result' = ExtractTextWithFonts(interp, ProcessStreamErr(parser))
  /\ interp' = GetText(interp).in
  /\ pc' = "done"
  /\ UNCHANGED << libvars, stream, registry, scanner, lastSplit, operand, parser,
                  opIdx, todo, lastOp, lastErr, warnings, saved, opSet >>

(***************************************************************************)
(* The streams of the model.                                               *)
(***************************************************************************)
\* The sequences over alphabet A of length at most n.
SeqsUpTo(A, n) == UNION {[1..k -> A] : k \in 0..n}

HelloWorldStream ==
  Str(<< "B", "T", " ", "/", "F", "1", " ", "1", "2", " ", "T", "f", " ", "7",
         "2", " ", "7", "2", "0", " ", "T", "d", " ", "(", "H", "e", "l", "l",
         "o", " ", "W", "o", "r", "l", "d", ")", " ", "T", "j", " ", "E", "T" >>)
CustomFontStream ==
  Str(<< "B", "T", " ", "/", "C", "u", "s", "t", "o", "m", "F", "o", "n", "t",
         " ", "1", "2", " ", "T", "f", " ", "<", "0", "1", "0", "2", "0", "3",
         "0", "4", ">", " ", "T", "j", " ", "E", "T" >>)
OutsideTextStream ==
  Str(<< "(", "x", ")", " ", "T", "j", " ", "B", "T", " ", "(", "y", ")", " ",
         "T", "j", " ", "E", "T" >>)
UnmatchedCloseStream ==
  Str(<< "B", "T", " ", "(", "a", ")", " ", "T", "j", " ", "]", " ", "(", "b",
         ")", " ", "T", "j", " ", "E", "T" >>)
UnclosedArrayStream ==
  Str(<< "B", "T", " ", "(", "a", ")", " ", "T", "j", " ", "[", " ", "(", "b",
         ")" >>)
UnbalancedQStream ==
  Str(<< "Q", " ", "B", "T", " ", "(", "a", ")", " ", "T", "j", " ", "E", "T" >>)
StrayParenStream ==
  Str(<< "B", "T", " ", "(", "a", ")", " ", "T", "j", " ", ")", " ", "E", "T" >>)
OddHexStream ==
  Str(<< "B", "T", " ", "<", "4", "8", "6", "5", "6", "C", "6", "C", "6", "F",
         "4", ">", " ", "T", "j", " ", "E", "T" >>)

TwoTdStream ==
  Str(<< "B", "T", " ", "(", "a", ")", " ", "T", "j", " ", "0", " ", "-", "1",
         "4", " ", "T", "d", " ", "(", "b", ")", " ", "T", "j", " ", "2", " ",
         "1", "2", " ", "T", "D", " ", "(", "c", ")", " ", "T", "j", " ", "E",
         "T" >>)

UnitTdStream ==
  Str(<< "B", "T", " ", "(", "a", ")", " ", "T", "j", " ", "1", " ", "0", " ",
         "T", "d", " ", "(", "b", ")", " ", "T", "j", " ", "1", " ", "0", " ",
         "T", "D", " ", "(", "c", ")", " ", "T", "j", " ", "E", "T" >>)

BracketInStringStream ==
  Str(<< "B", "T", " ", "(", "a", ")", " ", "T", "j", " ", "(", "]", ")", " ",
         "T", "j", " ", "E", "T" >>)

\* Tokens that are neither operators nor parsable operands.
BadTokens ==
  { Str(<< "1", "x" >>), Str(<< "d", "0" >>), Str(<< "-" >>),
    Str(<< "<", "4", "\f", "4", ">" >>) }

\* BT (a) X Tj (b) Tj ET: the token X between an operand and its operator.
BadOperandStream(X) ==
  Str(<< "B", "T", " ", "(", "a", ")", " " >>) \o X
    \o Str(<< " ", "T", "j", " ", "(", "b", ")", " ", "T", "j", " ", "E", "T" >>)

BadOperandStreams == {BadOperandStream(X) : X \in BadTokens}

\* The words w1 ... wn, each after a space.
RECURSIVE JoinWords(_)
JoinWords(ws) ==
  IF ws = << >> THEN << >> ELSE << cSpace >> \o Head(ws) \o JoinWords(Tail(ws))

\* The streams BT (a) Tj w1 ... wn op ET: the operator op with the
\* operands that the words w1 ... wn write.
OperandStream(ws, op) ==
  Str(<< "B", "T", " ", "(", "a", ")", " ", "T", "j" >>) \o JoinWords(ws)
    \o << cSpace >> \o op \o Str(<< " ", "E", "T" >>)

\* The words of the operands of Tf: names, literal strings and numbers.
TfWords == {Str(<< "/", "F", "2" >>), Str(<< "(", "F", "2", ")" >>), Str(<< "2" >>),
            Str(<< "(", "2", ")" >>), Str(<< "/", "2" >>)}

TfOperands == SeqsUpTo(TfWords, 2)

\* The operands of Tj: a literal string, a hex string, a number, a name, a
\* dictionary and an array.
TjOperands ==
  { << Str(<< "(", "b", ")" >>) >>, << Str(<< "<", "8", "5", ">" >>) >>, << Str(<< "2" >>) >>,
    << Str(<< "/", "b" >>) >>, << Str(<< "<", "<", "/", "b", ">", ">" >>) >>,
    << Str(<< "[" >>), Str(<< "(", "b", ")" >>), Str(<< "]" >>) >> }

\* The words of the elements of the array of TJ.
MaxArrayLen == 3
ArrayWords == {Str(<< "(", "b", ")" >>), Str(<< "<", "8", "5", ">" >>), Str(<< "2" >>)}

\* The operands of TJ: an array, or a string, a number or nothing.
TJOperands ==
  {<< Str(<< "[" >>) >> \o es \o << Str(<< "]" >>) >> : es \in SeqsUpTo(ArrayWords, MaxArrayLen)}
    \cup {<< >>, << Str(<< "(", "b", ")" >>) >>, << Str(<< "2" >>) >>}

\* The words of the streams about arrays: the array tokens, a literal
\* string, a number, and the literal strings that hold a bracket.
MaxStructureLen == 3
StructureWords == {Str(<< "[" >>), Str(<< "]" >>), Str(<< "(", "b", ")" >>), Str(<< "2" >>),
                   Str(<< "(", "[", ")" >>), Str(<< "(", "]", ")" >>)}
StructureOperands == SeqsUpTo(StructureWords, MaxStructureLen)

\* Hex strings with a byte that is neither a hex digit nor white space.
InvalidHexWords ==
  { Str(<< "<", "4", "x", ">" >>), Str(<< "<", "x", ">" >>),
    Str(<< "<", "4", "x", "4", "1", ">" >>), Str(<< "<", "4", "<", "4", "1", ">" >>) }

\* Tokens that are neither operators nor operands.
DroppedTokens == {Str(<< "\"" >>), Str(<< "d", "0" >>), Str(<< "d", "1" >>)}

\* The operands 2 X (b) or X alone before Tj, for such a token X.
DroppedTokenOperands ==
  {<< Str(<< "2" >>), X, Str(<< "(", "b", ")" >>) >> : X \in DroppedTokens}
    \cup {<< X >> : X \in DroppedTokens}

OperandStreams ==
  {OperandStream(ws, op_Tj) : ws \in StructureOperands}
    \cup {OperandStream(ws, op_Tj) : ws \in DroppedTokenOperands}
    \cup {OperandStream(<< w >>, op_Tj) : w \in InvalidHexWords}
    \cup {OperandStream(ws, op_Tf) : ws \in TfOperands}
    \cup {OperandStream(ws, op_Tj) : ws \in TjOperands}
    \cup {OperandStream(ws, op_TJ) : ws \in TJOperands}

FixedStreams ==
  { TwoTdStream,
    UnitTdStream,
    BracketInStringStream,
    HelloWorldStream,
    CustomFontStream,
    OutsideTextStream,
    UnmatchedCloseStream,
    UnclosedArrayStream,
    UnbalancedQStream,
    StrayParenStream,
    OddHexStream }

\* The streams BT /F1 n Tf x y Td (S) Tj ET.
MaxTextLen == 3
TextAlphabet == {Ord("H"), Ord("o"), cSpace}
SimpleTexts ==
  {S \in SeqsUpTo(TextAlphabet, MaxTextLen) :
     S = << >> \/ (~IsSpace(S[1]) /\ ~IsSpace(S[Len(S)]))}
SizeTokens == {Str(<< "1", "2" >>), Str(<< "1" >>)}
DeltaXTokens == {Str(<< "0" >>), Str(<< "2" >>), Str(<< "7", "2" >>)}
DeltaYTokens == {Str(<< "0" >>), Str(<< "7", "2", "0" >>), Str(<< "-", "1", "4" >>)}

SimpleStream(n, x, y, S) ==
  Str(<< "B", "T", " ", "/", "F", "1", " " >>) \o n
    \o Str(<< " ", "T", "f", " " >>) \o x \o << cSpace >> \o y
    \o Str(<< " ", "T", "d", " ", "(" >>) \o S
    \o Str(<< ")", " ", "T", "j", " ", "E", "T" >>)

SimpleCases ==
  {[stream |-> SimpleStream(n, x, y, S), text |-> S] :
     n \in SizeTokens, x \in DeltaXTokens, y \in DeltaYTokens, S \in SimpleTexts}

\* Every short stream over a few delimiters, an operator letter and a space.
MaxStreamLen == 3
ShortAlphabet == {cLBrack, cRBrack, cRParen, cRAngle, Ord("j"), cSpace}
ShortStreams == SeqsUpTo(ShortAlphabet, MaxStreamLen)

Streams ==
  FixedStreams \cup BadOperandStreams \cup OperandStreams
    \cup {c.stream : c \in SimpleCases} \cup ShortStreams

\* The registry of the advanced example: CustomFont with the ToUnicode
\* CMap {01:H, 02:e, 03:l, 04:o}, and F1 with WinAnsi.
ExampleCMap ==
  (Str(<< "0", "1" >>) :> Str(<< "H" >>)) @@ (Str(<< "0", "2" >>) :> Str(<< "e" >>)) @@
  (Str(<< "0", "3" >>) :> Str(<< "l" >>)) @@ (Str(<< "0", "4" >>) :> Str(<< "o" >>))

ExampleRegistry ==
  RegisterSimple(
    RegisterWithToUnicode(NewFontRegistry,
                          Str(<< "C", "u", "s", "t", "o", "m", "F", "o", "n", "t" >>),
                          ExampleCMap),
    Str(<< "F", "1" >>), "EncodingWinAnsi")

FontStreams == {CustomFontStream, OddHexStream, HelloWorldStream}

\* ExtractText(data) is ExtractTextWithFonts(data, nil).
Calls ==
  {[data |-> d, fr |-> NilFontRegistry] : d \in Streams}
    \cup {[data |-> d, fr |-> ExampleRegistry] : d \in FontStreams}

Init == \E c \in Calls : CallExtract(c.data, c.fr)

Next == ScanRead \/ ScanSplit \/ ProcessNext \/ ExtractReturn

\* ExtractText on the streams of the model.
Spec == Init /\ [][Next]_vars

NextIO == ScanRead \/ ScanReadFail \/ ScanSplit \/ ProcessNext \/ ExtractReturn

\* The same call over a reader whose Read may fail.
SpecIO == Init /\ [][NextIO]_vars

(***************************************************************************)
(* The interpreter on its own: ProcessStream's loop over an operation list *)
(* whose length is chosen at the start and whose operations are chosen as  *)
(* the loop reaches them, then GetText, any number of times.               *)
(***************************************************************************)
MaxOps == 4
MaxTextOps == 6

fontF2 == String(Str(<< "F", "2" >>))
textA == String(Str(<< "a" >>))

\* Operations that act on the graphics and text state.
StateOps ==
  { Operation(op_q, << >>),
    Operation(op_Q, << >>),
    Operation(op_BT, << >>),
    Operation(op_ET, << >>),
    Operation(op_Tf, << fontF2, Float(2) >>),
    Operation(op_Tf, << fontF2 >>),
    Operation(op_Tf, << fontF2, textA >>),
    Operation(op_Tf, << Float(1), Float(2) >>),
    Operation(op_Tj, << textA >>),
    Operation(op_Tj, << >>),
    Operation(op_Tj, << Float(2) >>),
    Operation(op_TJ, << textA >>),
    Operation(op_TJ, << Array(<< textA, Float(-300), Bytes(<< 150 >>) >>) >>),
    Operation(op_Quote, << textA >>),
    Operation(op_DQuote, << Float(1), Float(2), textA >>),
    Operation(op_Tstar, << >>),
    Operation(op_Td, << Float(0), Float(-14) >>),
    Operation(op_Td, << Float(2), Float(0) >>),
    Operation(op_TD, << Float(0), Float(12) >>),
    Operation(op_Tm, << Float(1), Float(0), Float(0), Float(1), Float(0), Float(12) >>),
    Operation(op_Tm, << Float(1), Float(0), Float(0), Float(1), Float(0) >>),
    Operation(Str(<< "r", "g" >>), << Float(1), Float(0), Float(0) >>) }

\* Operations that write white space, line ends and text.
TextOps ==
  { Operation(op_BT, << >>),
    Operation(op_Tj, << textA >>),
    Operation(op_Tj, << String(<< cSpace >>) >>),
    Operation(op_Tj, << String(<< cCR >>) >>),
    Operation(op_Tj, << Bytes(<< 160 >>) >>),
    Operation(op_Tstar, << >>) }

OpSetOf(name) == IF name = "text" THEN TextOps ELSE StateOps

\* NewInterpreter(), then ProcessStream on a list of n operations.
CallInterp(name, n) ==
  /\ stream = << >>
  /\ registry = NilFontRegistry
  /\ RegistryIdle
  /\ CMapIdle
  /\ scanner = NewScanner(<< >>)
  /\ lastSplit = NoSplit
  /\ operand = Err
  /\ parser = ParseStart
  /\ interp = NewInterpreter
  /\ opIdx = 0
  /\ todo = n
  /\ lastOp = NoOp
  /\ lastErr = ""
  /\ warnings = 0
  /\ result = NoResult
  /\ saved = << >>
  /\ opSet = name
  /\ pc = "process"

\* One pass through ProcessStream's loop, for an operation of the set.
ProcessAny ==
  /\ pc = "process"
  /\ todo > 0
  /\ \E op \in OpSetOf(opSet) :
       LET r == ProcessStreamStep(interp, op)
       IN /\ interp' = r.in
          /\ lastOp' = op
          /\ lastErr' = r.err
          /\ warnings' = IF r.logged THEN warnings + 1 ELSE warnings
          /\ opIdx' = opIdx + 1
          /\ todo' = IF r.continue THEN todo - 1 ELSE 0
          /\ saved' = SavedAfter(saved, interp, op)
  /\ UNCHANGED << libvars, stream, registry, scanner, lastSplit, operand, parser,
                  result, opSet, pc >>

\* GetText(), after ProcessStream has returned.
CallGetText ==
  /\ pc \in {"process", "got"}
  /\ todo = 0
  /\ result' = [text |-> GetText(interp).text, err |-> ""]
  /\ interp' = GetText(interp).in
  /\ pc' = "got"
  /\ UNCHANGED << libvars, stream, registry, scanner, lastSplit, operand, parser,
                  opIdx, todo, lastOp, lastErr, warnings, saved, opSet >>

InitInterp == \E n \in 0..MaxOps : CallInterp("state", n)

InitText == \E n \in 0..MaxTextOps : CallInterp("text", n)

NextInterp == ProcessAny \/ CallGetText

\* The interpreter on operations that act on its state.
SpecInterp == InitInterp /\ [][NextInterp]_vars

\* The interpreter on operations that write text.
SpecText == InitText /\ [][NextInterp]_vars

(***************************************************************************)
(* The tokenizer and the operand parser on one string object: the Scanner  *)
(* delivers the first token of the input, parseOperand parses it.          *)
(***************************************************************************)
MaxLitLen == 4
MaxOctalLen == 4
MaxHexLen == 4

LitAlphabet == {Ord("a"), cLParen, cRParen, cBackslash, cPercent}
OctalAlphabet == {Ord("3"), Ord("7"), Ord("8"), Ord("a")}
HexAlphabet == {Ord("4"), Ord("F"), Ord("c"), cSpace, cLF, Ord("\f")}

\* What follows the string object in the input: nothing, or an operator.
Followers == {<< >>, Str(<< " ", "j" >>)}

\* (S), alone or followed by an operator.
LitInputs ==
  {<< cLParen >> \o S \o << cRParen >> \o f :
     S \in SeqsUpTo(LitAlphabet, MaxLitLen), f \in Followers}

\* (\T)
OctalInputs ==
  {<< cLParen, cBackslash >> \o T \o << cRParen >> :
     T \in SeqsUpTo(OctalAlphabet, MaxOctalLen)}

\* <H>
HexInputs ==
  {<< cLAngle >> \o H \o << cRAngle >> : H \in SeqsUpTo(HexAlphabet, MaxHexLen)}

\* <<D>>, alone or followed by an operator: nested dictionaries, literal
\* strings and hex strings inside a dictionary.
MaxDictLen == 4
DictAlphabet == {cLAngle, cRAngle, cLParen, cRParen, cBackslash, Ord("a")}
DictInputs ==
  {<< cLAngle, cLAngle >> \o D \o << cRAngle, cRAngle >> \o f :
     D \in SeqsUpTo(DictAlphabet, MaxDictLen), f \in Followers}

LexInputs == LitInputs \cup OctalInputs \cup HexInputs \cup DictInputs

CallLex(data) ==
  /\ stream = data
  /\ registry = NilFontRegistry
  /\ RegistryIdle
  /\ CMapIdle
  /\ scanner = NewScanner(data)
  /\ lastSplit = NoSplit
  /\ operand = Err
  /\ parser = ParseStart
  /\ interp = NewInterpreter
  /\ opIdx = 0
  /\ todo = 0
  /\ lastOp = NoOp
  /\ lastErr = ""
  /\ warnings = 0
  /\ result = NoResult
  /\ saved = << >>
  /\ opSet = "none"
  /\ pc = "lex"

\* Scan's read step.
LexRead ==
  /\ pc = "lex"
  /\ scanner.fill
  /\ scanner' = ReadAll(scanner)
  /\ UNCHANGED << libvars, stream, registry, lastSplit, operand, parser, interp, opIdx,
                  todo, lastOp, lastErr, warnings, result, saved, opSet, pc >>

\* Scan's split step: a token is delivered, or more is read, or the input
\* has ended without a token.
LexSplit ==
  /\ pc = "lex"
  /\ ~scanner.fill
  /\ LET r == pdfTokenSplit(scanner.buf, scanner.err # "")
     IN /\ lastSplit' = r
        /\ scanner' = [scanner EXCEPT
                         !.buf = Slice(scanner.buf, r.adv, Len(scanner.buf)),
                         !.fill = r.isNil /\ scanner.err = ""]
        /\ pc' = IF ~r.isNil THEN "token"
                 ELSE IF scanner.err # "" THEN "eof" ELSE "lex"
  /\ UNCHANGED << libvars, stream, registry, operand, parser, interp, opIdx, todo,
                  lastOp, lastErr, warnings, result, saved, opSet >>

\* parseOperand on the token delivered.
LexParse ==
  /\ pc = "token"
  /\ operand' = parseOperand(lastSplit.tok)
  /\ pc' = "parsed"
  /\ UNCHANGED << libvars, stream, registry, scanner, lastSplit, parser, interp, opIdx,
                  todo, lastOp, lastErr, warnings, result, saved, opSet >>

InitLex == \E data \in LexInputs : CallLex(data)

NextLex == LexRead \/ LexSplit \/ LexParse

\* Tokenizer, then operand parser, on string objects.
SpecLex == InitLex /\ [][NextLex]_vars

(***************************************************************************)
(* Properties of ExtractText.                                              *)
(***************************************************************************)

\* C2: every call of the tokenizer returns a non-empty token, consumes at
\* least one byte, or asks for more input (returns no token), so that Parse
\* makes progress at every step, also at a stray ")", ">", "{" or "}".
C2_TokenizerProgress ==
  lastSplit.isNil \/ Len(lastSplit.tok) > 0 \/ lastSplit.adv > 0

\* C3: when ExtractText / ExtractTextWithFonts returns, it returns no error
\* and the text accumulated so far (trimmed, line ends normalised), whether
\* operations failed, Parse failed on an unmatched "]" or an unclosed array,
\* or the reader failed.
C3_NoErrorPropagated ==
  pc = "done" =>
    /\ result.err = ""
    /\ result.text = ReplaceCRLF(TrimSpace(interp.textBuilder))
    /\ parser.err # "" => result.text = << >>

\* A call returned after the reader failed and Parse reported it.
C3_Witness ==
  /\ pc = "done"
  /\ scanner.err = "read error"
  /\ parser.err # ""
  /\ result = NoResult

\* C4: when a registry is supplied, a Bytes operand shown by Tj is appended
\* as decoded by the font the last Tf selected, looked up by name in the
\* registry (ToUnicode CMap, else declared encoding, else byte as code point).
C4_BytesThroughSelectedFont ==
  [][(/\ opIdx' = opIdx + 1
      /\ ~registry.isNil
      /\ lastOp'.Name = op_Tj
      /\ lastErr' = ""
      /\ Len(lastOp'.Operands) = 1
      /\ lastOp'.Operands[1].t = "bytes")
     => interp'.textBuilder =
          interp.textBuilder \o
            FontDecodeText(MustLookup(registry, interp.textState.FontName),
                           lastOp'.Operands[1].v)]_vars

C1_TextShowingOutsideText ==
  [][(/\ opIdx' = opIdx + 1
      /\ ~interp.inTextObject
      /\ isTextShowingOp(lastOp'.Name))
     => /\ lastErr' # ""
        /\ warnings' = warnings + 1
        /\ interp'.textBuilder = interp.textBuilder
        /\ todo' = todo - 1
        /\ pc' = "process"]_vars

\* A text-showing operator has just failed outside a text object, text was
\* shown before it, and operations are still ahead.
C1_Witness ==
  /\ opSet = "state"
  /\ ~interp.inTextObject
  /\ isTextShowingOp(lastOp.Name)
  /\ lastErr # ""
  /\ interp.textBuilder # << >>
  /\ todo > 0

\* C5: a Q that matches a q puts back the TextState the interpreter had
\* when that q was processed and leaves the stack as deep as it was before
\* the q, whatever balanced sequence of operations came in between.
C5_SaveRestoreLIFO ==
  [][(/\ opIdx' = opIdx + 1
      /\ lastOp'.Name = op_Q
      /\ saved # << >>)
     => /\ lastErr' = ""
        /\ interp'.textState = saved[Len(saved)].ts
        /\ Len(interp'.stateStack) = saved[Len(saved)].depth
        /\ saved[Len(saved)].depth = Len(saved) - 1]_vars

\* A Q has just restored a TextState that differs from the initial one,
\* inside an outer q that is still open.
C5_Witness ==
  /\ opSet = "state"
  /\ lastOp.Name = op_Q
  /\ lastErr = ""
  /\ Len(interp.stateStack) = 1
  /\ interp.textState # NewTextState
  /\ interp.stateStack[1] # interp.textState

\* The white-space runes the interpreter can write, in UTF-8.
SpaceRunes ==
  { << 9 >>, << 10 >>, << 11 >>, << 12 >>, << 13 >>, << 32 >>,
    << 194, 133 >>, << 194, 160 >> }

StartsWithSpace(s) ==
  \E r \in SpaceRunes : Len(s) >= Len(r) /\ SubSeq(s, 1, Len(r)) = r

EndsWithSpace(s) ==
  \E r \in SpaceRunes :
    Len(s) >= Len(r) /\ SubSeq(s, Len(s) - Len(r) + 1, Len(s)) = r

RECURSIVE AllSpace(_)
AllSpace(s) ==
  \/ s = << >>
  \/ \E r \in SpaceRunes :
       /\ Len(s) >= Len(r)
       /\ SubSeq(s, 1, Len(r)) = r
       /\ AllSpace(SubSeq(s, Len(r) + 1, Len(s)))

\* t is s without its leading and trailing white space.
IsTrimOf(t, s) ==
  \E i \in 0..Len(s) : \E j \in i..Len(s) :
    /\ t = SubSeq(s, i + 1, j)
    /\ AllSpace(SubSeq(s, 1, i))
    /\ AllSpace(SubSeq(s, j + 1, Len(s)))
    /\ ~StartsWithSpace(t)
    /\ ~EndsWithSpace(t)

\* r is t with every CR that an LF follows left out.
IsCRLFNormalOf(r, t) ==
  LET kept == {k \in 1..Len(t) : ~(t[k] = cCR /\ k < Len(t) /\ t[k + 1] = cLF)}
  IN /\ Len(r) = Cardinality(kept)
     /\ \A k \in kept : r[Cardinality({m \in kept : m <= k})] = t[k]

\* C7: GetText returns the buffer without its leading and trailing white
\* space and with every CR LF pair replaced by LF, leaves the buffer as it
\* was, and returns the empty string when no operation has been processed.
C7_GetTextTrimsAndNormalises ==
  [][pc' = "got"
     => /\ \E t \in {SubSeq(interp.textBuilder, i, j) :
                       i \in 1..Len(interp.textBuilder) + 1,
                       j \in 0..Len(interp.textBuilder)} :
             /\ IsTrimOf(t, interp.textBuilder)
             /\ IsCRLFNormalOf(result'.text, t)
        /\ interp' = interp
        /\ opIdx = 0 => result'.text = << >>]_vars

\* GetText has returned a text in which an LF stands for a CR LF pair of
\* the buffer, and white space at both ends of the buffer was trimmed away.
C7_Witness ==
  /\ pc = "got"
  /\ Len(result.text) = 3
  /\ result.text[2] = cLF
  /\ Len(interp.textBuilder) > 4
  /\ StartsWithSpace(interp.textBuilder)
  /\ \E k \in 1..Len(interp.textBuilder) - 1 :
       interp.textBuilder[k] = cCR /\ interp.textBuilder[k + 1] = cLF

(***************************************************************************)
(* Properties of the tokenizer and the operand parser.                     *)
(***************************************************************************)

\* The input without the operator that follows the string object.
StringObject(data) ==
  IF Len(data) >= 2 /\ SubSeq(data, Len(data) - 1, Len(data)) = Str(<< " ", "j" >>)
    THEN SubSeq(data, 1, Len(data) - 2)
    ELSE data

\* What stands between the delimiters of the string object.
Body(data) == SubSeq(StringObject(data), 2, Len(StringObject(data)) - 1)

Count(S, c) == Cardinality({k \in 1..Len(S) : S[k] = c})

\* Every ")" of S closes a "(" of S, and every "(" of S is closed in S.
Balanced(S) ==
  /\ Count(S, cLParen) = Count(S, cRParen)
  /\ \A k \in 1..Len(S) :
       Count(SubSeq(S, 1, k), cLParen) >= Count(SubSeq(S, 1, k), cRParen)

\* C8 as stated: for every literal string (S) of printable ASCII
\* characters, the tokenizer and then the operand parser yield the text S.
C8_PrintableRoundTrip ==
  pc = "parsed" /\ stream \in LitInputs =>
    operand = Ok(String(Body(stream)))

\* C8 as amended: for every literal string (S) of printable ASCII
\* characters with no backslash and with balanced parentheses, the
\* tokenizer and then the operand parser yield the text S.
C8_EscapeFreeRoundTrip ==
  /\ pc = "parsed" /\ stream \in LitInputs
       /\ Balanced(Body(stream)) /\ Count(Body(stream), cBackslash) = 0
     => operand = Ok(String(Body(stream)))
  /\ pc \in {"token", "eof"} /\ stream \in LitInputs
       /\ Balanced(Body(stream)) /\ Count(Body(stream), cBackslash) = 0
     => pc = "token" /\ lastSplit.tok = StringObject(stream)

\* A string with nested parentheses and a comment character, followed by
\* an operator, has been tokenized and parsed.
C8_Witness ==
  /\ pc = "parsed"
  /\ stream \in LitInputs
  /\ stream # StringObject(stream)
  /\ Len(Body(stream)) = MaxLitLen
  /\ Count(Body(stream), cLParen) = 1
  /\ Count(Body(stream), cRParen) = 1
  /\ Count(Body(stream), cPercent) = 1
  /\ Balanced(Body(stream))
  /\ operand = Ok(String(Body(stream)))

\* The number of octal digits an escape takes from T: those at the start
\* of T, three at most.
EscapeDigits(T) ==
  CHOOSE n \in 0..3 :
    /\ n <= Len(T)
    /\ \A k \in 1..n : T[k] \in 48..55
    /\ n = 3 \/ n = Len(T) \/ T[n + 1] \notin 48..55

RECURSIVE OctalNumber(_)
OctalNumber(D) ==
  IF D = << >> THEN 0
  ELSE 8 * OctalNumber(SubSeq(D, 1, Len(D) - 1)) + (D[Len(D)] - 48)

\* C9: in a literal string, a backslash followed by one to three octal
\* digits (three, or fewer before a character that is no octal digit)
\* decodes to the one byte whose value is the digits' octal value modulo
\* 256, and what follows those digits is decoded on its own.
C9_OctalEscape ==
  pc = "parsed" /\ stream \in OctalInputs /\ EscapeDigits(Tail(Body(stream))) > 0 =>
    LET T == Tail(Body(stream))
        n == EscapeDigits(T)
    IN operand =
         Ok(String(<< OctalNumber(SubSeq(T, 1, n)) % 256 >>
                    \o SubSeq(T, n + 1, Len(T))))

\* \7773 has been parsed: three digits above 255, then a digit on its own.
C9_Witness ==
  /\ pc = "parsed"
  /\ stream \in OctalInputs
  /\ Body(stream) = << cBackslash, 55, 55, 55, 51 >>
  /\ operand = Ok(String(<< 255, 51 >>))

\* The hex digits of H, in order.
HexDigitsOf(H) == SelectSeq(H, LAMBDA b : b \in 48..57 \cup 65..70 \cup 97..102)

HexNibble(b) ==
  IF b \in 48..57 THEN b - 48 ELSE IF b \in 65..70 THEN b - 55 ELSE b - 87

\* The bytes that the hex digits D stand for, a last odd digit taken as
\* followed by 0.
HexBytes(D) ==
  [k \in 1..((Len(D) + 1) \div 2) |->
     16 * HexNibble(D[2 * k - 1])
       + (IF 2 * k <= Len(D) THEN HexNibble(D[2 * k]) ELSE 0)]

\* C10: a hex string <H> of hex digits and white space decodes to the bytes
\* of its digits, an odd number of digits being read as if a 0 were
\* appended, and the white space between the digits changing nothing.
C10_HexPaddingAndWhitespace ==
  /\ pc = "parsed" /\ stream \in HexInputs
  /\ HexDigitsOf(Body(stream)) # << >>
  /\ Head(Body(stream)) = Head(HexDigitsOf(Body(stream)))
  /\ Body(stream)[Len(Body(stream))] \in 48..57 \cup 65..70 \cup 97..102
  => operand = Ok(Bytes(HexBytes(HexDigitsOf(Body(stream)))))
(***************************************************************************)
(* Properties of the text-positioning operators and of Parse.              *)
(***************************************************************************)

C13_FatalExactlyOnStructure ==
  [][(pc = "scan" /\ pc' = "interp")
     => /\ parser'.err # "" <=>
             \/ /\ ~lastSplit'.isNil
                /\ lastSplit'.tok = << cRBrack >>
                /\ parser.arrayLevel = 0
             \/ /\ lastSplit'.isNil
                /\ parser.arrayLevel > 0 \/ scanner.err = "read error"
        /\ parser'.err # "" => parser'.operations = << >>]_vars
\* The operations of BT (a) X Tj (b) Tj ET when the token X is skipped.
SkippedOperandOperations ==
  << Operation(op_BT, << >>),
     Operation(op_Tj, << String(<< Ord("a") >>) >>),
     Operation(op_Tj, << String(<< Ord("b") >>) >>),
     Operation(op_ET, << >>) >>

\* C14: a token that is no operator and that parseOperand rejects is
\* skipped on its own: the parse state is as before it and the loop goes
\* on, Parse returns no error, and the operators before and after the token
\* yield their Operations in order.
C14_BadOperandSkipped ==
  [][/\ (/\ pc = "scan"
         /\ ~scanner.fill
         /\ parser.err = ""
         /\ ~lastSplit'.isNil
         /\ Len(lastSplit'.tok) > 0
         /\ ~(parser.arrayLevel = 0 /\ isOperator(lastSplit'.tok))
         /\ ~parseOperand(lastSplit'.tok).ok)
        => parser' = parser /\ pc' = "scan"
     /\ (pc = "scan" /\ pc' = "interp" /\ stream \in BadOperandStreams)
        => /\ parser'.err = ""
           /\ parser'.operations = SkippedOperandOperations]_vars

\* Parse has returned the four operations of a stream in which a hex string
\* with a form feed was skipped.
C14_Witness ==
  /\ pc = "interp"
  /\ stream = BadOperandStream(Str(<< "<", "4", "\f", "4", ">" >>))
  /\ parser.err = ""
  /\ parser.operations = SkippedOperandOperations
\* C20: the interpreter starts outside a text object; BT puts it inside and
\* resets the TextState to fontName "default", fontSize 1, lastY 0; ET puts
\* it outside and leaves the TextState as it was; no other operation changes
\* the flag, so it tells which of BT and ET was processed last.
C20_TextObjectFlag ==
  [][/\ opIdx = 0 => ~interp.inTextObject
     /\ opIdx' = opIdx + 1 =>
          /\ lastOp'.Name = op_BT =>
               /\ lastErr' = ""
               /\ interp'.inTextObject
               /\ interp'.textState =
                    [FontName |-> Str(<< "d", "e", "f", "a", "u", "l", "t" >>),
                     FontSize |-> 1, LastY |-> 0]
          /\ lastOp'.Name = op_ET =>
               /\ lastErr' = ""
               /\ ~interp'.inTextObject
               /\ interp'.textState = interp.textState
          /\ lastOp'.Name \notin {op_BT, op_ET} =>
               interp'.inTextObject = interp.inTextObject]_vars

\* An ET has just closed a text object in which Tf and a move had changed
\* the TextState.
C20_Witness ==
  /\ opSet = "state"
  /\ lastOp.Name = op_ET
  /\ ~interp.inTextObject
  /\ interp.textState.FontSize = 2
  /\ interp.textState.LastY # 0
(***************************************************************************)
(* The font registry used by several goroutines.  A call takes the lock,   *)
(* runs its body and releases the lock on return (defer).  sync.RWMutex:   *)
(* Lock first excludes other writers and announces itself, then waits for  *)
(* the read locks held to be released; RLock blocks while a writer has     *)
(* announced itself or holds the lock.                                     *)
(***************************************************************************)
MaxCalls == 3

\* The state of the pipeline's variables when no stream is processed.
PipeIdle ==
  /\ stream = << >>
  /\ scanner = NewScanner(<< >>)
  /\ lastSplit = NoSplit
  /\ operand = Err
  /\ parser = ParseStart
  /\ interp = NewInterpreter
  /\ opIdx = 0
  /\ todo = 0
  /\ lastOp = NoOp
  /\ lastErr = ""
  /\ warnings = 0
  /\ result = NoResult
  /\ saved = << >>
  /\ opSet = "none"
  /\ pc = "idle"

nameF1 == Str(<< "F", "1" >>)
nameF2 == Str(<< "F", "2" >>)

\* Two fonts named F1, and the font RegisterSimple builds for F2.
FontA == [NewFont(nameF1) EXCEPT !.Encoding = "EncodingWinAnsi"]
FontB == [NewFont(nameF1) EXCEPT !.ToUnicode = ExampleCMap, !.hasToUnicode = TRUE,
                                 !.Encoding = "EncodingCustom"]
FontC == [NewFont(nameF2) EXCEPT !.Encoding = "EncodingWinAnsi"]

\* The calls the goroutines make: the method, and the font it is given or
\* builds, or the name it looks up.
RegistryCalls ==
  {[call |-> "Register", font |-> f, name |-> << >>] : f \in {FontA, FontB, NilFont}}
    \cup {[call |-> "RegisterSimple", font |-> FontC, name |-> nameF2],
          [call |-> "RegisterWithToUnicode", font |-> FontB, name |-> nameF1]}
    \cup {[call |-> c, font |-> NilFont, name |-> n] :
            c \in {"Lookup", "MustLookup"}, n \in {nameF1, nameF2}}
    \cup {[call |-> c, font |-> NilFont, name |-> << >>] :
            c \in {"Count", "List", "Clear", "String"}}
    \cup {[call |-> "SetDefaultFont", font |-> f, name |-> << >>] : f \in {FontA, NilFont}}

Writers == {"Register", "RegisterSimple", "RegisterWithToUnicode", "Clear",
            "SetDefaultFont"}

\* A goroutine has panicked: the program has ended.
Crashed == \E t \in Threads : thr[t].pc = "panic"

\* FontRegistry.Lookup's body
Lookup(fr, name) ==
  IF name \in DOMAIN fr.fonts
    THEN [font |-> fr.fonts[name], ok |-> TRUE]
    ELSE [font |-> fr.defaultFont, ok |-> FALSE]

\* A goroutine calls a method of the registry.
RegCall(t) ==
  /\ ~Crashed
  /\ thr[t].pc = "idle"
  /\ calls < MaxCalls
  /\ \E c \in RegistryCalls :
       thr' = [thr EXCEPT ![t] =
                 [pc |-> IF c.call \in Writers THEN "Lock" ELSE "RLock",
                  call |-> c.call, font |-> c.font, name |-> c.name,
                  ret |-> << >>]]
  /\ calls' = calls + 1
  /\ UNCHANGED << pipevars, cmapvars, mu, latest >>

\* fr.mu.Lock(), first half: no other writer, Lock announces itself.
RegLock(t) ==
  /\ ~Crashed
  /\ thr[t].pc = "Lock"
  /\ mu.writer = 0
  /\ mu' = [mu EXCEPT !.writer = t]
  /\ thr' = [thr EXCEPT ![t].pc = "LockWait"]
  /\ UNCHANGED << pipevars, cmapvars, latest, calls >>

\* fr.mu.Lock(), second half, when no read lock is held; then the body of
\* the writing method and the deferred Unlock.
RegWrite(t) ==
  /\ ~Crashed
  /\ thr[t].pc = "LockWait"
  /\ mu.readers = 0
  /\ mu' = [mu EXCEPT !.writer = 0]
  /\ LET c == thr[t].call
         f == thr[t].font
     IN IF c = "Clear"
          THEN /\ registry' = [registry EXCEPT !.fonts = << >>]
               /\ latest' = << >>
               /\ thr' = [thr EXCEPT ![t].pc = "idle"]
        ELSE IF c = "SetDefaultFont"
          THEN /\ registry' = [registry EXCEPT !.defaultFont = f]
               /\ latest' = latest
               /\ thr' = [thr EXCEPT ![t].pc = "idle"]
        ELSE IF f = NilFont
          THEN \* font.Name on a nil *Font
               /\ registry' = registry
               /\ latest' = latest
               /\ thr' = [thr EXCEPT ![t].pc = "panic"]
          ELSE /\ registry' = Register(registry, f)
               /\ latest' = [n \in DOMAIN latest \cup {f.Name} |->
                               IF n = f.Name THEN f ELSE latest[n]]
               /\ thr' = [thr EXCEPT ![t].pc = "idle", ![t].ret = f]
  /\ UNCHANGED << stream, scanner, lastSplit, operand, parser, interp, opIdx,
                  todo, lastOp, lastErr, warnings, result, saved, opSet, pc,
                  cmapvars, calls >>

\* fr.mu.RLock(), in a reading method or in the List that String calls.
RegRLock(t) ==
  /\ ~Crashed
  /\ thr[t].pc \in {"RLock", "ListRLock"}
  /\ mu.writer = 0
  /\ mu' = [mu EXCEPT !.readers = @ + 1]
  /\ thr' = [thr EXCEPT ![t].pc = IF thr[t].pc = "RLock" THEN "Read" ELSE "ListRead"]
  /\ UNCHANGED << pipevars, cmapvars, latest, calls >>

\* The body of a reading method and its deferred RUnlock; String goes on to
\* call List with its read lock held.
RegRead(t) ==
  /\ ~Crashed
  /\ thr[t].pc = "Read"
  /\ LET c == thr[t].call IN
       IF c = "String"
         THEN /\ thr' = [thr EXCEPT ![t].pc = "ListRLock"]
              /\ mu' = mu
         ELSE /\ thr' = [thr EXCEPT
                   ![t].pc = "idle",
                   ![t].ret =
                     IF c = "Lookup" THEN Lookup(registry, thr[t].name)
                     ELSE IF c = "MustLookup"
                       THEN [font |-> Lookup(registry, thr[t].name).font]
                     ELSE IF c = "Count" THEN Cardinality(DOMAIN registry.fonts)
                     ELSE DOMAIN registry.fonts]
              /\ mu' = [mu EXCEPT !.readers = @ - 1]
  /\ UNCHANGED << pipevars, cmapvars, latest, calls >>

\* In String: List's body and RUnlock, then Sprintf and String's RUnlock.
RegListRead(t) ==
  /\ ~Crashed
  /\ thr[t].pc = "ListRead"
  /\ thr' = [thr EXCEPT ![t].pc = "idle",
                        ![t].ret = << Cardinality(DOMAIN registry.fonts),
                                      DOMAIN registry.fonts >>]
  /\ mu' = [mu EXCEPT !.readers = @ - 2]
  /\ UNCHANGED << pipevars, cmapvars, latest, calls >>

InitRegistry ==
  /\ PipeIdle
  /\ registry = NewFontRegistry
  /\ RegistryIdle
  /\ CMapIdle

NextRegistry ==
  \E t \in Threads :
    \/ RegCall(t)
    \/ RegLock(t)
    \/ RegWrite(t)
    \/ RegRLock(t)
    \/ RegRead(t)
    \/ RegListRead(t)

\* Goroutines calling the methods of one registry.
SpecRegistry == InitRegistry /\ [][NextRegistry]_vars

(***************************************************************************)
(* Properties of the font registry.                                        *)
(***************************************************************************)

\* The call of goroutine t can take its next step.
Runnable(t) ==
  \/ thr[t].pc = "Lock" /\ mu.writer = 0
  \/ thr[t].pc = "LockWait" /\ mu.readers = 0
  \/ thr[t].pc \in {"RLock", "ListRLock"} /\ mu.writer = 0
  \/ thr[t].pc \in {"Read", "ListRead"}

\* C15: whatever the interleaving of the goroutines' calls, the calls in
\* progress are never all blocked: as long as a call has not returned, some
\* call can take a step, so every call returns (also a String that runs
\* while a writer waits for the lock).
C15_NoDeadlock ==
  \/ Crashed
  \/ \A t \in Threads : thr[t].pc = "idle"
  \/ \E t \in Threads : Runnable(t)

\* C16: Lookup(name) returns the font last registered under name since the
\* last Clear, with true, or else the default font, with false; and the
\* font that Lookup and MustLookup return is never nil.
C16_LookupLatestNeverNil ==
  [][\A t \in Threads :
       (/\ thr[t].pc = "Read"
        /\ thr[t].call \in {"Lookup", "MustLookup"}
        /\ thr'[t].pc = "idle")
       => /\ thr'[t].ret.font # NilFont
          /\ thr[t].name \in DOMAIN latest =>
               thr'[t].ret.font = latest[thr[t].name]
          /\ thr[t].name \notin DOMAIN latest =>
               thr'[t].ret.font = registry.defaultFont
          /\ thr[t].call = "Lookup" =>
               thr'[t].ret.ok = (thr[t].name \in DOMAIN latest)]_vars
(***************************************************************************)
(* The ToUnicode CMap parser, ParseToUnicodeCMap.  bufio.ScanWords hands   *)
(* it the words of the program one by one, so a program is the sequence of *)
(* its words; cmapScanner counts the words consumed.  cmapPc tells where   *)
(* the parser is: "top" in the loop of ParseToUnicodeCMap, "bfchar" and    *)
(* "bfrange" in the loops of the two sections, "done" when it has returned *)
(* the CMap, "error" when it has returned nil and an error.                *)
(***************************************************************************)
tokBeginBfChar == Str(<< "b", "e", "g", "i", "n", "b", "f", "c", "h", "a", "r" >>)
tokEndBfChar == Str(<< "e", "n", "d", "b", "f", "c", "h", "a", "r" >>)
tokBeginBfRange == Str(<< "b", "e", "g", "i", "n", "b", "f", "r", "a", "n", "g", "e" >>)
tokEndBfRange == Str(<< "e", "n", "d", "b", "f", "r", "a", "n", "g", "e" >>)

\* isHexString
isHexString(s) ==
  LET t == TrimSpace(s)
  IN Len(t) >= 1 /\ t[1] = cLAngle /\ t[Len(t)] = cRAngle

\* stripHexBrackets
stripHexBrackets(s) ==
  LET t == TrimSpace(s)
      u == IF Len(t) >= 1 /\ t[1] = cLAngle THEN Tail(t) ELSE t
  IN IF Len(u) >= 1 /\ u[Len(u)] = cRAngle THEN SubSeq(u, 1, Len(u) - 1) ELSE u

RECURSIVE HexValue(_)
HexValue(s) ==
  IF s = << >> THEN 0
  ELSE 16 * HexValue(SubSeq(s, 1, Len(s) - 1)) + HexDigitValue(s[Len(s)])

\* hexStringToInt: strconv.ParseInt(hexStr, 16, 64), [ok, val]; an optional
\* sign, then one hex digit or more.
hexStringToInt(hexStr) ==
  LET signed == Len(hexStr) >= 1 /\ hexStr[1] \in {cPlus, cMinus}
      digits == IF signed THEN Tail(hexStr) ELSE hexStr
  IN IF digits = << >> \/ \E k \in 1..Len(digits) : ~IsHexDigit(digits[k])
       THEN [ok |-> FALSE, val |-> 0]
       ELSE [ok |-> TRUE,
             val |-> IF signed /\ hexStr[1] = cMinus
                       THEN 0 - HexValue(digits) ELSE HexValue(digits)]

\* string(runes)
RECURSIVE RunesToString(_)
RunesToString(runes) ==
  IF runes = << >> THEN << >> ELSE UTF8(Head(runes)) \o RunesToString(Tail(runes))

\* hexToUnicodeString, [ok, str]: hex.DecodeString, then UTF-16BE after an
\* optional byte order mark for two bytes or more, the code point itself
\* for one byte.
hexToUnicodeString(hexStr) ==
  IF Len(hexStr) % 2 # 0 \/ \E k \in 1..Len(hexStr) : ~IsHexDigit(hexStr[k])
    THEN [ok |-> FALSE, str |-> << >>]
  ELSE
    LET data == [k \in 1..(Len(hexStr) \div 2) |->
                   16 * HexDigitValue(hexStr[2 * k - 1]) + HexDigitValue(hexStr[2 * k])]
        body == IF Len(data) >= 2 /\ data[1] = 254 /\ data[2] = 255
                  THEN SubSeq(data, 3, Len(data)) ELSE data
    IN IF Len(data) >= 2
         THEN [ok |-> TRUE,
               str |-> RunesToString([k \in 1..(Len(body) \div 2) |->
                                        256 * body[2 * k - 1] + body[2 * k]])]
       ELSE IF Len(data) = 1 THEN [ok |-> TRUE, str |-> UTF8(data[1])]
       ELSE [ok |-> FALSE, str |-> << >>]

RECURSIVE HexOf(_)
HexOf(n) == IF n < 16 THEN << HexDigits[n + 1] >>
            ELSE Append(HexOf(n \div 16), HexDigits[(n % 16) + 1])

\* fmt.Sprintf("%02x", code) for an int
Sprintf02x(code) ==
  LET h == IF code < 0 THEN << cMinus >> \o HexOf(0 - code) ELSE HexOf(code)
  IN IF Len(h) < 2 THEN << cZero >> \o h ELSE h

\* cm.mappings[key] = value
SetMapping(cm, key, value) ==
  [k \in DOMAIN cm \cup {key} |-> IF k = key THEN value ELSE cm[k]]

\* What one pass of a section's loop leaves: where the parser goes on, the
\* words consumed, the mappings, and the error returned.
Pass(to, i, cm, err) == [pc |-> to, i |-> i, cm |-> cm, err |-> err]

\* The scanner has no more word inside a section: the section returns an
\* error.
BlockEOFReturning(i, cm, err) == Pass("top", i, cm, "")
BlockEOF(i, cm, err) == Pass("error", i, cm, err)

\* One pass of the loop of parseBfChar.
parseBfChar(p, i, cm) ==
  IF i >= Len(p) THEN BlockEOF(i, cm, "parsing bfchar: endbfchar not found")
  ELSE IF p[i + 1] = tokEndBfChar THEN Pass("top", i + 1, cm, "")
  ELSE IF ~isHexString(p[i + 1]) THEN Pass("bfchar", i + 1, cm, "")
  ELSE IF i + 1 >= Len(p)
    THEN BlockEOF(i + 1, cm, "parsing bfchar: unexpected EOF in bfchar")
  ELSE IF ~isHexString(p[i + 2]) THEN Pass("bfchar", i + 2, cm, "")
  ELSE LET unicodeStr == hexToUnicodeString(stripHexBrackets(p[i + 2]))
       IN IF ~unicodeStr.ok THEN Pass("bfchar", i + 2, cm, "")
          ELSE Pass("bfchar", i + 2,
                    SetMapping(cm, stripHexBrackets(p[i + 1]), unicodeStr.str), "")

\* for code := startCode; code <= endCode; code++
RangeContinuesExclusive(code, endCode) == code < endCode
RangeContinues(code, endCode) == code <= endCode

\* The loop that creates the mappings of a range.
RECURSIVE RangeLoop(_, _, _, _, _)
RangeLoop(cm, code, startCode, endCode, dstCode) ==
  IF RangeContinues(code, endCode)
    THEN RangeLoop(SetMapping(cm, Sprintf02x(code), UTF8(dstCode + (code - startCode))),
                   code + 1, startCode, endCode, dstCode)
    ELSE cm

\* One pass of the loop of parseBfRange.
parseBfRange(p, i, cm) ==
  IF i >= Len(p) THEN BlockEOF(i, cm, "parsing bfrange: endbfrange not found")
  ELSE IF p[i + 1] = tokEndBfRange THEN Pass("top", i + 1, cm, "")
  ELSE IF ~isHexString(p[i + 1]) THEN Pass("bfrange", i + 1, cm, "")
  ELSE IF i + 1 >= Len(p)
    THEN BlockEOF(i + 1, cm, "parsing bfrange: unexpected EOF in bfrange (end)")
  ELSE IF ~isHexString(p[i + 2]) THEN Pass("bfrange", i + 2, cm, "")
  ELSE IF i + 2 >= Len(p)
    THEN BlockEOF(i + 2, cm, "parsing bfrange: unexpected EOF in bfrange (dst)")
  ELSE IF TrimSpace(p[i + 3]) # << >> /\ TrimSpace(p[i + 3])[1] = cLBrack
    THEN Pass("bfrange", i + 3, cm, "")
  ELSE IF ~isHexString(p[i + 3]) THEN Pass("bfrange", i + 3, cm, "")
  ELSE LET startCode == hexStringToInt(stripHexBrackets(p[i + 1]))
           endCode == hexStringToInt(stripHexBrackets(p[i + 2]))
           dstCode == hexStringToInt(stripHexBrackets(p[i + 3]))
       IN IF ~startCode.ok \/ ~endCode.ok \/ ~dstCode.ok
            THEN Pass("bfrange", i + 3, cm, "")
            ELSE Pass("bfrange", i + 3,
                      RangeLoop(cm, startCode.val, startCode.val, endCode.val,
                                dstCode.val), "")

\* ParseToUnicodeCMap is called on a program.
CallParseCMap(p) ==
  /\ PipeIdle
  /\ registry = NewFontRegistry
  /\ RegistryIdle
  /\ program = p
  /\ cmapScanner = 0
  /\ cmap = << >>
  /\ cmapPc = "top"
  /\ cmapErr = ""
  /\ decode = [data |-> << >>, i |-> 0, result |-> << >>]

\* One pass of the loop of ParseToUnicodeCMap: a section starts, or the
\* word is ignored; with no word left the CMap is returned.
CMapTop ==
  /\ cmapPc = "top"
  /\ IF cmapScanner < Len(program)
       THEN /\ cmapScanner' = cmapScanner + 1
            /\ cmapPc' = IF program[cmapScanner + 1] = tokBeginBfChar THEN "bfchar"
                         ELSE IF program[cmapScanner + 1] = tokBeginBfRange THEN "bfrange"
                         ELSE "top"
       ELSE /\ cmapScanner' = cmapScanner
            /\ cmapPc' = "done"
  /\ UNCHANGED << pipevars, regvars, program, cmap, cmapErr, decode >>

BfCharEntry ==
  /\ cmapPc = "bfchar"
  /\ LET r == parseBfChar(program, cmapScanner, cmap)
     IN /\ cmapPc' = r.pc
        /\ cmapScanner' = r.i
        /\ cmap' = r.cm
        /\ cmapErr' = r.err
  /\ UNCHANGED << pipevars, regvars, program, decode >>

BfRangeEntry ==
  /\ cmapPc = "bfrange"
  /\ LET r == parseBfRange(program, cmapScanner, cmap)
     IN /\ cmapPc' = r.pc
        /\ cmapScanner' = r.i
        /\ cmap' = r.cm
        /\ cmapErr' = r.err
  /\ UNCHANGED << pipevars, regvars, program, decode >>

\* The words of the entries of the programs: hex strings of one and of two
\* bytes, a hex string that is no hex, and a word that is no hex string.
tok20 == Str(<< "<", "2", "0", ">" >>)
tok23 == Str(<< "<", "2", "3", ">" >>)
tok0041 == Str(<< "<", "0", "0", "4", "1", ">" >>)
tokBadHex == Str(<< "<", "z", "z", ">" >>)
tokWord == Str(<< "x" >>)
EntryTokens == {tok20, tok23, tok0041, tokBadHex, tokWord}

MaxEntryTokens == 4

\* The programs: an optional header word, the start of a section, words,
\* and the end of the section, the end of the other section, or nothing.
Programs ==
  {head \o << begin >> \o body \o tail :
     head \in {<< >>, << tokWord >>},
     begin \in {tokBeginBfChar, tokBeginBfRange},
     body \in SeqsUpTo(EntryTokens, MaxEntryTokens),
     tail \in {<< >>, << tokEndBfChar >>, << tokEndBfRange >>}}

InitCMap == \E p \in Programs : CallParseCMap(p)

NextCMap == CMapTop \/ BfCharEntry \/ BfRangeEntry

\* ParseToUnicodeCMap on the programs.
SpecCMap == InitCMap /\ [][NextCMap]_vars
(***************************************************************************)
(* Properties of the ToUnicode CMap parser.                                *)
(***************************************************************************)

\* A word "<" hex digits ">" with one digit at least.
WellFormedHex(w) ==
  /\ Len(w) >= 3
  /\ w[1] = 60
  /\ w[Len(w)] = 62
  /\ \A k \in 2..(Len(w) - 1) : w[k] \in 48..57 \cup 65..70 \cup 97..102

\* The number that the hex digits D write.
RECURSIVE HexNumber(_)
HexNumber(D) ==
  IF D = << >> THEN 0
  ELSE 16 * HexNumber(SubSeq(D, 1, Len(D) - 1)) + HexNibble(D[Len(D)])

\* The code that a well-formed hex word writes.
CodeOf(w) == HexNumber(SubSeq(w, 2, Len(w) - 1))

BfRangeExample == << tokBeginBfRange, tok20, tok23, tok0041, tokEndBfRange >>

BfRangeExampleMappings ==
  (Str(<< "2", "0" >>) :> Str(<< "A" >>)) @@ (Str(<< "2", "1" >>) :> Str(<< "B" >>)) @@
  (Str(<< "2", "2" >>) :> Str(<< "C" >>)) @@ (Str(<< "2", "3" >>) :> Str(<< "D" >>))

\* C11: a bfrange entry <srcStart> <srcEnd> <dstStart> maps every code c of
\* srcStart..srcEnd to the code point dstStart + (c - srcStart), and leaves
\* every other mapping as it was; it adds nothing when srcEnd < srcStart;
\* and <20> <23> <0041> gives exactly {20:A, 21:B, 22:C, 23:D}.
C11_BfRangeExpansion ==
  [][(/\ cmapPc = "bfrange"
      /\ cmapScanner + 3 <= Len(program)
      /\ \A k \in 1..3 : WellFormedHex(program[cmapScanner + k]))
     => LET srcStart == CodeOf(program[cmapScanner + 1])
            srcEnd == CodeOf(program[cmapScanner + 2])
            dstStart == CodeOf(program[cmapScanner + 3])
        IN /\ \A c \in srcStart..srcEnd :
                CMapLookup(cmap', << c >>) =
                  [ok |-> TRUE, unicode |-> UTF8(dstStart + (c - srcStart))]
           /\ \A k \in DOMAIN cmap' :
                \/ k \in {HexKey(<< c >>) : c \in srcStart..srcEnd}
                \/ k \in DOMAIN cmap /\ cmap'[k] = cmap[k]
           /\ srcEnd < srcStart => DOMAIN cmap' = DOMAIN cmap
           /\ program = BfRangeExample => cmap' = BfRangeExampleMappings]_vars

\* The range of the example has been expanded.
C11_Witness ==
  /\ cmapPc = "done"
  /\ program = BfRangeExample
  /\ Cardinality(DOMAIN cmap) = 4

SectionStarts == {tokBeginBfChar, tokBeginBfRange}
SectionEnd(begin) == IF begin = tokBeginBfChar THEN tokEndBfChar ELSE tokEndBfRange

\* Where the first section of the program p starts.
FirstSection(p, i) ==
  /\ i \in 1..Len(p)
  /\ p[i] \in SectionStarts
  /\ \A j \in 1..(i - 1) : p[j] \notin SectionStarts

\* The program ends inside its section: the end of the section never comes.
EndsInsideBlock(p) ==
  \E i \in 1..Len(p) :
    /\ FirstSection(p, i)
    /\ \A j \in (i + 1)..Len(p) : p[j] # SectionEnd(p[i])

\* The section of the program ends with the program.
Terminated(p) ==
  \E i \in 1..Len(p) :
    /\ FirstSection(p, i)
    /\ i < Len(p)
    /\ p[Len(p)] = SectionEnd(p[i])

\* A terminated section whose words are well-formed entries: pairs of hex
\* words in bfchar, triples in bfrange.
WellFormedProgram(p) ==
  \E i \in 1..Len(p) :
    /\ FirstSection(p, i)
    /\ i < Len(p)
    /\ p[Len(p)] = SectionEnd(p[i])
    /\ \A j \in (i + 1)..(Len(p) - 1) : WellFormedHex(p[j])
    /\ (Len(p) - 1 - i) % (IF p[i] = tokBeginBfChar THEN 2 ELSE 3) = 0

\* C17: when the program ends inside a bfchar or bfrange section,
\* ParseToUnicodeCMap returns an error and no CMap; when the section is
\* terminated and its entries are well-formed, it returns the CMap and no
\* error.
C17_UnterminatedBlockFatal ==
  cmapPc \in {"done", "error"} =>
    /\ EndsInsideBlock(program) => cmapPc = "error" /\ cmapErr # ""
    /\ WellFormedProgram(program) => cmapPc = "done" /\ cmapErr = ""

\* A program that ends inside its section after an entry was stored.
C17_Witness ==
  /\ cmapPc = "error"
  /\ EndsInsideBlock(program)
  /\ DOMAIN cmap # {}

\* C18: a malformed entry inside a terminated section does not make
\* ParseToUnicodeCMap fail, and what follows it is still recognised: the
\* parse ends without error, and a well-formed bfchar pair that follows a
\* word that is no hex string has its mapping.
C18_MalformedEntrySkipped ==
  (cmapPc \in {"done", "error"} /\ Terminated(program)) =>
    /\ cmapPc = "done"
    /\ \A k \in 2..(Len(program) - 2) :
         (/\ tokBeginBfChar \in {program[j] : j \in 1..(k - 1)}
          /\ program[k - 1][1] # 60
          /\ WellFormedHex(program[k])
          /\ WellFormedHex(program[k + 1]))
         => SubSeq(program[k], 2, Len(program[k]) - 1) \in DOMAIN cmap
(***************************************************************************)
(* CMap.DecodeString step by step: decode holds the bytes, the position i  *)
(* of the loop and the text written so far; cmap is the CMap used.         *)
(***************************************************************************)

\* One pass of the loop of DecodeString at position i: the bytes consumed
\* and the text written.
decodeIterationOneByteFirst(cm, data, i) ==
  IF CMapLookup(cm, << At(data, i) >>).ok
    THEN [adv |-> 1, out |-> CMapLookup(cm, << At(data, i) >>).unicode]
  ELSE IF i + 1 < Len(data) /\ CMapLookup(cm, Slice(data, i, i + 2)).ok
    THEN [adv |-> 2, out |-> CMapLookup(cm, Slice(data, i, i + 2)).unicode]
  ELSE [adv |-> 1, out |-> UTF8(65533)]
decodeIteration(cm, data, i) ==
  IF i + 1 < Len(data) /\ CMapLookup(cm, Slice(data, i, i + 2)).ok
    THEN [adv |-> 2, out |-> CMapLookup(cm, Slice(data, i, i + 2)).unicode]
  ELSE IF CMapLookup(cm, << At(data, i) >>).ok
    THEN [adv |-> 1, out |-> CMapLookup(cm, << At(data, i) >>).unicode]
  ELSE [adv |-> 1, out |-> UTF8(65533)]

\* cm.DecodeString(data) is called.
CallDecodeString(cm, data) ==
  /\ PipeIdle
  /\ registry = NewFontRegistry
  /\ RegistryIdle
  /\ program = << >>
  /\ cmapScanner = 0
  /\ cmap = cm
  /\ cmapPc = "decode"
  /\ cmapErr = ""
  /\ decode = [data |-> data, i |-> 0, result |-> << >>]

\* for i < len(data): one pass
DecodeStep ==
  /\ cmapPc = "decode"
  /\ decode.i < Len(decode.data)
  /\ LET r == decodeIteration(cmap, decode.data, decode.i)
     IN decode' = [decode EXCEPT !.i = @ + r.adv, !.result = @ \o r.out]
  /\ UNCHANGED << pipevars, regvars, program, cmapScanner, cmap, cmapPc, cmapErr >>

\* return result.String()
DecodeReturn ==
  /\ cmapPc = "decode"
  /\ ~(decode.i < Len(decode.data))
  /\ cmapPc' = "decoded"
  /\ UNCHANGED << pipevars, regvars, program, cmapScanner, cmap, cmapErr, decode >>

\* The CMaps of the decoding: any of the codes 01, 02, 0102 and 0201, each
\* with a text of its own.
DecodeMappings ==
  (Str(<< "0", "1" >>) :> Str(<< "a" >>)) @@ (Str(<< "0", "2" >>) :> Str(<< "b" >>)) @@
  (Str(<< "0", "1", "0", "2" >>) :> Str(<< "c" >>)) @@
  (Str(<< "0", "2", "0", "1" >>) :> Str(<< "d" >>))

DecodeCMaps == {[k \in K |-> DecodeMappings[k]] : K \in SUBSET DOMAIN DecodeMappings}

MaxDataLen == 3

DecodeData == SeqsUpTo({1, 2, 3}, MaxDataLen)

InitDecode == \E cm \in DecodeCMaps, data \in DecodeData : CallDecodeString(cm, data)

NextDecode == DecodeStep \/ DecodeReturn

\* DecodeString on the CMaps and byte sequences above.
SpecDecode == InitDecode /\ [][NextDecode]_vars

(***************************************************************************)
(* Properties of CMap.DecodeString.                                        *)
(***************************************************************************)

\* C19: at each position the decoding uses the mapping of the 2-byte code
\* when there is one and goes on two bytes further, else the mapping of the
\* 1-byte code and goes on one byte further, else it writes one U+FFFD and
\* goes on one byte further; it never passes the end of the bytes, and it
\* returns when every byte has been consumed.
C19_DecodeTwoByteFirst ==
  [][cmapPc = "decode" =>
       LET d == decode.data
           i == decode.i
           two == i + 2 <= Len(d) /\ HexKey(<< d[i + 1], d[i + 2] >>) \in DOMAIN cmap
           one == HexKey(<< d[i + 1] >>) \in DOMAIN cmap
       IN IF i < Len(d)
            THEN /\ cmapPc' = "decode"
                 /\ decode'.i = i + (IF two THEN 2 ELSE 1)
                 /\ decode'.i <= Len(d)
                 /\ decode'.result =
                      decode.result \o
                        (IF two THEN cmap[HexKey(<< d[i + 1], d[i + 2] >>)]
                         ELSE IF one THEN cmap[HexKey(<< d[i + 1] >>)]
                         ELSE << 239, 191, 189 >>)
            ELSE /\ cmapPc' = "decoded"
                 /\ decode' = decode
                 /\ i = Len(d)]_vars

\* 01 02 03 was decoded with mappings for 0102 and for 01: the 2-byte code
\* won, and 03 gave U+FFFD.
C19_Witness ==
  /\ cmapPc = "decoded"
  /\ decode.data = << 1, 2, 3 >>
  /\ {Str(<< "0", "1" >>), Str(<< "0", "1", "0", "2" >>)} \subseteq DOMAIN cmap
  /\ decode.result = Str(<< "c" >>) \o << 239, 191, 189 >>
(***************************************************************************)
(* Properties of the operators Tf, Tj, TJ and Tm.                          *)
(***************************************************************************)

\* A word is a name, a literal string, a hex string, a number.
IsNameWord(w) == w[1] = 47
IsLiteralWord(w) == w[1] = 40 /\ w[Len(w)] = 41
IsHexWord(w) == w[1] = 60 /\ w[Len(w)] = 62 /\ (Len(w) < 2 \/ w[2] # 60)
IsNumberWord(w) == \A k \in 1..Len(w) : w[k] \in 48..57

\* The number that a word of decimal digits writes.
RECURSIVE NumberOf(_)
NumberOf(w) ==
  IF w = << >> THEN 0
  ELSE 10 * NumberOf(SubSeq(w, 1, Len(w) - 1)) + (w[Len(w)] - 48)

\* What stands between the first and the last byte of a word.
Inner(w) == SubSeq(w, 2, Len(w) - 1)

\* ProcessStream has just processed the operator op of the stream
\* BT (a) Tj w1 ... wn op ET.
Processed(ws, op) ==
  /\ stream = OperandStream(ws, op)
  /\ pc = "interp"
  /\ opIdx = 3
  /\ lastOp.Name = op

\* C21: Tf with a name n and a number s sets fontName to n and fontSize to
\* s; with an operand 0 that is no name, an operand 1 that is no number, or
\* fewer than two operands, it reports an error and leaves fontName and
\* fontSize as they were.
C21_TfSetsFont ==
  \A ws \in TfOperands :
    Processed(ws, op_Tf) =>
      IF Len(ws) = 2 /\ IsNameWord(ws[1]) /\ IsNumberWord(ws[2])
        THEN /\ lastErr = ""
             /\ interp.textState.FontName = Tail(ws[1])
             /\ interp.textState.FontSize = NumberOf(ws[2])
        ELSE /\ lastErr # ""
             /\ interp.textState.FontName = Str(<< "d", "e", "f", "a", "u", "l", "t" >>)
             /\ interp.textState.FontSize = 1

\* C22: inside a text object Tj appends text when its operand is a literal
\* string or a hex string; with an operand of any other kind it reports an
\* error, the processing goes on, and nothing is appended.
C22_TjShowsTextOperandsOnly ==
  \A ws \in TjOperands :
    Processed(ws, op_Tj) =>
      IF IsLiteralWord(ws[1]) \/ IsHexWord(ws[1])
        THEN lastErr = "" /\ interp.textBuilder # Str(<< "a" >>)
        ELSE lastErr # "" /\ interp.textBuilder = Str(<< "a" >>)

\* What Tj appends for an element of the array: the text of a literal
\* string, the WinAnsi decoding of a hex string, nothing for a number.
ElementText(w) ==
  IF IsLiteralWord(w) THEN Inner(w)
  ELSE IF IsHexWord(w) THEN DecodeWinAnsi(HexBytes(Inner(w)))
  ELSE << >>

RECURSIVE ElementsText(_)
ElementsText(es) ==
  IF es = << >> THEN << >> ELSE ElementText(Head(es)) \o ElementsText(Tail(es))

\* C23: TJ on an array of literal strings, hex strings and numbers appends
\* what Tj appends for each string, in the order of the array, and nothing
\* for the numbers; TJ on an operand that is no array, or on none, reports
\* an error and appends nothing.
C23_TJShowsArrayInOrder ==
  \A ws \in TJOperands :
    Processed(ws, op_TJ) =>
      IF ws # << >> /\ ws[1] = << 91 >>
        THEN /\ lastErr = ""
             /\ interp.textBuilder = Str(<< "a" >>) \o ElementsText(Inner(ws))
        ELSE lastErr # "" /\ interp.textBuilder = Str(<< "a" >>)

\* TJ has shown the array [(b) 2 <85>]: b, then the ellipsis of byte 0x85.
C23_Witness ==
  /\ Processed(<< Str(<< "[" >>), Str(<< "(", "b", ")" >>), Str(<< "2" >>), Str(<< "<", "8", "5", ">" >>), Str(<< "]" >>) >>, op_TJ)
  /\ interp.textBuilder = Str(<< "a", "b" >>) \o << 226, 128, 166 >>
\* C24: Tm with six operands or more, the sixth a number f, appends one
\* newline exactly when |f - lastY| > 0.5 * fontSize for the lastY and the
\* fontSize held before, and then sets lastY to f; Tm with fewer than six
\* operands changes nothing and reports no error.
C24_TmNewlineOnVerticalMove ==
  [][(pc = "process" /\ opIdx' = opIdx + 1 /\ lastOp'.Name = op_Tm)
     => IF Len(lastOp'.Operands) >= 6 /\ lastOp'.Operands[6].t = "float64"
          THEN LET f == lastOp'.Operands[6].v
                   d == IF f >= interp.textState.LastY
                          THEN f - interp.textState.LastY
                          ELSE interp.textState.LastY - f
               IN /\ interp'.textBuilder =
                       interp.textBuilder \o
                         (IF 2 * d > interp.textState.FontSize THEN << 10 >> ELSE << >>)
                  /\ interp'.textState = [interp.textState EXCEPT !.LastY = f]
                  /\ lastErr' = ""
          ELSE interp' = interp /\ lastErr' = ""]_vars

\* Tm as the first operation: a newline, and lastY is the sixth operand.
C24_Witness ==
  /\ opSet = "state"
  /\ opIdx = 1
  /\ lastOp.Name = op_Tm
  /\ Len(lastOp.Operands) = 6
  /\ interp.textBuilder = << 10 >>
  /\ interp.textState.LastY = 12
(***************************************************************************)
(* Properties of Parse: operations and arrays.                             *)
(***************************************************************************)

\* Parse's loop takes a pass for a token that Scan delivers.
TokenRead ==
  /\ pc = "scan"
  /\ ~scanner.fill
  /\ parser.err = ""
  /\ ~lastSplit'.isNil
  /\ Len(lastSplit'.tok) > 0
  /\ pc' # "panic"

\* A token made only of letters, "*" and "'".
IsOperatorToken(tok) ==
  \A k \in 1..Len(tok) : tok[k] \in (65..90) \cup (97..122) \cup {42, 39}

\* The one-byte tokens "[" and "]".
IsArrayToken(tok) == tok \in {<< 91 >>, << 93 >>}

\* C25: an operator token read at array depth zero emits one Operation, of
\* that name, whose operands are the pending operands, and empties the
\* pending buffer; every operand that parses at depth zero joins the
\* pending buffer at its end; and no other token changes the Operations
\* already emitted.
C25_OneOperationPerOperator ==
  [][TokenRead =>
       LET tok == lastSplit'.tok IN
       IF parser.arrayLevel = 0 /\ IsOperatorToken(tok)
         THEN /\ parser'.operations =
                   Append(parser.operations,
                          [Name |-> tok, Operands |-> parser.operands])
              /\ parser'.operands = << >>
         ELSE /\ parser'.err = "" => parser'.operations = parser.operations
              /\ (/\ parser.arrayLevel = 0
                  /\ ~IsArrayToken(tok)
                  /\ parseOperand(tok).ok)
                 => parser'.operands = Append(parser.operands, parseOperand(tok).val)]_vars

\* C26: the depth counter is the number of open array frames and is never
\* negative; a "]" read at depth d > 0 closes the innermost frame, which
\* becomes one Array element of the enclosing frame (d > 1) or one pending
\* operand (d = 1); an operand read at depth > 0 joins the innermost frame
\* at its end.
C26_ArraysNest ==
  [][/\ parser'.arrayLevel = Len(parser'.arrayStack)
     /\ parser'.arrayLevel >= 0
     /\ TokenRead =>
          LET tok == lastSplit'.tok
              d == parser.arrayLevel
          IN /\ (tok = << 93 >> /\ d > 1) =>
                  /\ parser'.arrayLevel = d - 1
                  /\ parser'.arrayStack =
                       Append(SubSeq(parser.arrayStack, 1, d - 2),
                              Append(parser.arrayStack[d - 1],
                                     Array(parser.arrayStack[d])))
                  /\ parser'.operands = parser.operands
             /\ (tok = << 93 >> /\ d = 1) =>
                  /\ parser'.arrayLevel = 0
                  /\ parser'.arrayStack = << >>
                  /\ parser'.operands =
                       Append(parser.operands, Array(parser.arrayStack[1]))
             /\ (d > 0 /\ ~IsArrayToken(tok) /\ parseOperand(tok).ok) =>
                  /\ parser'.arrayLevel = d
                  /\ parser'.arrayStack =
                       Append(SubSeq(parser.arrayStack, 1, d - 1),
                              Append(parser.arrayStack[d], parseOperand(tok).val))
                  /\ parser'.operands = parser.operands]_vars

\* C27: only the tokens "[" and "]" act on the arrays: a literal-string
\* token is delivered as a string operand, to the innermost open array or
\* to the pending operands, leaves the depth as it is and causes no fatal
\* error; and no Operation emitted has the string "[" or "]" as an operand.
C27_OnlyBracketTokensStructural ==
  [][/\ (TokenRead /\ lastSplit'.tok[1] = 40 /\ parseOperand(lastSplit'.tok).ok) =>
          /\ parser'.err = ""
          /\ parser'.arrayLevel = parser.arrayLevel
          /\ parser' = AddOperand(parser, parseOperand(lastSplit'.tok).val)
     /\ \A k \in 1..Len(parser'.operations) :
          \A j \in 1..Len(parser'.operations[k].Operands) :
            LET o == parser'.operations[k].Operands[j]
            IN ~(o.t = "string" /\ o.v \in {<< 91 >>, << 93 >>})]_vars
(***************************************************************************)
(* Properties of the tokenizer on hex strings and dictionaries.            *)
(***************************************************************************)

\* C28: on a hex string with a byte that is neither a hex digit nor white
\* space the tokenizer ends the token at that byte; the malformed token is
\* skipped and Parse goes on to the tokens after it, returns no error, and
\* emits the operators that follow the hex string.
C28_InvalidHexRecovered ==
  [][\A w \in InvalidHexWords :
       stream = OperandStream(<< w >>, op_Tj) =>
         /\ (pc = "scan" /\ ~scanner.fill /\ ~lastSplit'.isNil) =>
              Len(lastSplit'.tok) > 0
         /\ (TokenRead /\ lastSplit'.tok[1] = 60
               /\ lastSplit'.tok[Len(lastSplit'.tok)] # 62) =>
              /\ \A k \in 2..Len(lastSplit'.tok) :
                   lastSplit'.tok[k] \in 48..57 \cup 65..70 \cup 97..102
              /\ parser' = parser
              /\ pc' = "scan"
         /\ (pc = "scan" /\ pc' = "interp") =>
              /\ parser'.err = ""
              /\ [k \in 1..Len(parser'.operations) |-> parser'.operations[k].Name]
                   = << op_BT, op_Tj, op_Tj, op_ET >>]_vars
\* Where the literal string ends whose "(" stands before position i of s,
\* with level parentheses open: the position after its ")", 0 when it does
\* not end.
RECURSIVE LiteralEnd(_, _, _)
LiteralEnd(s, i, level) ==
  IF i > Len(s) THEN 0
  ELSE IF s[i] = 92 THEN LiteralEnd(s, i + 2, level)
  ELSE IF s[i] = 40 THEN LiteralEnd(s, i + 1, level + 1)
  ELSE IF s[i] = 41
    THEN IF level = 1 THEN i + 1 ELSE LiteralEnd(s, i + 1, level - 1)
  ELSE LiteralEnd(s, i + 1, level)

\* Where the hex string ends whose "<" stands before position i of s: the
\* position after its ">", 0 when it has none or holds another byte than
\* hex digits.
RECURSIVE HexEnd(_, _)
HexEnd(s, i) ==
  IF i > Len(s) THEN 0
  ELSE IF s[i] = 62 THEN i + 1
  ELSE IF s[i] \in 48..57 \cup 65..70 \cup 97..102 THEN HexEnd(s, i + 1)
  ELSE 0

\* Where the dictionary ends that is open at position i of s with depth
\* dictionaries open: the position after the ">>" that matches the first
\* "<<", 0 when s holds no well-formed dictionary.  Inside a dictionary
\* stand dictionaries, literal strings, hex strings and other bytes.
RECURSIVE DictEnd(_, _, _)
DictEnd(s, i, depth) ==
  IF i > Len(s) THEN 0
  ELSE IF s[i] = 60 /\ i < Len(s) /\ s[i + 1] = 60 THEN DictEnd(s, i + 2, depth + 1)
  ELSE IF s[i] = 60
    THEN IF HexEnd(s, i + 1) = 0 THEN 0 ELSE DictEnd(s, HexEnd(s, i + 1), depth)
  ELSE IF s[i] = 40
    THEN IF LiteralEnd(s, i + 1, 1) = 0 THEN 0
         ELSE DictEnd(s, LiteralEnd(s, i + 1, 1), depth)
  ELSE IF s[i] = 62 /\ i < Len(s) /\ s[i + 1] = 62
    THEN IF depth = 1 THEN i + 2 ELSE DictEnd(s, i + 2, depth - 1)
  ELSE IF s[i] \in {62, 41} THEN 0
  ELSE DictEnd(s, i + 1, depth)

\* C29: a dictionary << ... >>, with the dictionaries and the literal
\* strings inside it, is delivered by the tokenizer as one token that ends
\* at the ">>" matching the first "<<", and parseOperand hands it on whole,
\* as one operand.
C29_DictionaryOneToken ==
  (stream \in DictInputs /\ DictEnd(stream, 3, 1) # 0) =>
    LET dict == SubSeq(stream, 1, DictEnd(stream, 3, 1) - 1)
    IN /\ pc \in {"token", "eof"} => pc = "token" /\ lastSplit.tok = dict
       /\ pc = "parsed" => operand = Ok(String(dict))
(***************************************************************************)
(* A CMap in use: ParseToUnicodeCMap reads a program, and the CMap it      *)
(* returns decodes bytes with DecodeString.                                *)
(***************************************************************************)

\* cm.DecodeString(data) is called on the CMap that ParseToUnicodeCMap
\* returned.
CallDecodeParsed(data) ==
  /\ cmapPc = "done"
  /\ cmapPc' = "decode"
  /\ decode' = [data |-> data, i |-> 0, result |-> << >>]
  /\ UNCHANGED << pipevars, regvars, program, cmapScanner, cmap, cmapErr >>

\* The source codes of the bfchar entries: two hex digits in either case.
SrcDigits == Str(<< "0", "a", "A" >>)
SrcWords ==
  {<< cLAngle, SrcDigits[h], SrcDigits[l], cRAngle >> : h, l \in 1..Len(SrcDigits)}

\* One bfchar section with one entry, for A; one bfrange section with one
\* entry, from code 20 to code 23 or less, for A and the following letters,
\* the codes written with two hex digits or with four.
tok0020 == Str(<< "<", "0", "0", "2", "0", ">" >>)
tok0023 == Str(<< "<", "0", "0", "2", "3", ">" >>)
UsePrograms ==
  {<< tokBeginBfChar, src, tok0041, tokEndBfChar >> : src \in SrcWords} \cup
  {<< tokBeginBfRange, tok20, hi, tok0041, tokEndBfRange >> : hi \in {tok20, tok23}} \cup
  {<< tokBeginBfRange, tok0020, hi, tok0041, tokEndBfRange >> : hi \in {tok0020, tok0023}}

MaxUseLen == 2

\* The bytes decoded: the codes of the entries and one without entry.
UseBytes == {0, 10, 32, 35, 160, 170, 1}
UseData == SeqsUpTo(UseBytes, MaxUseLen)

\* The destination arrays of bfrange entries: one element <41> or more,
\* <41> <42> ..., the brackets standing apart from the elements or written
\* against them.
MaxElements == 3
Element(k) == << cLAngle, Ord("4"), cZero + k, cRAngle >>
ArrayForm(n, openApart, closeApart) ==
  LET es == [k \in 1..n |-> Element(k)]
      opened == IF openApart THEN << << cLBrack >> >> \o es
                ELSE << << cLBrack >> \o es[1] >> \o Tail(es)
  IN IF closeApart THEN opened \o << << cRBrack >> >>
     ELSE SubSeq(opened, 1, Len(opened) - 1) \o << opened[Len(opened)] \o << cRBrack >> >>
ArrayForms ==
  {ArrayForm(n, openApart, closeApart) :
     n \in 1..MaxElements, openApart \in BOOLEAN, closeApart \in BOOLEAN}

\* One bfrange section whose first entry has an array for destination,
\* alone or with the entry <20> <20> <0041> after it.
ArrayPrograms ==
  {<< tokBeginBfRange, tok20, tok23 >> \o arr \o rest \o << tokEndBfRange >> :
     arr \in ArrayForms, rest \in {<< >>, << tok20, tok20, tok0041 >>}}

InitUse == \E p \in UsePrograms \cup ArrayPrograms : CallParseCMap(p)

NextUse ==
  \/ CMapTop
  \/ BfCharEntry
  \/ BfRangeEntry
  \/ \E data \in UseData : CallDecodeParsed(data)
  \/ DecodeStep
  \/ DecodeReturn

\* ParseToUnicodeCMap on a program, then DecodeString with its CMap.
SpecUse == InitUse /\ [][NextUse]_vars

(***************************************************************************)
(* Properties of the keys of a CMap.                                       *)
(***************************************************************************)

\* The hex digits D in lower case.
LowerHex(D) == [k \in 1..Len(D) |-> IF D[k] \in 65..70 THEN D[k] + 32 ELSE D[k]]

\* C30: the source code of a bfchar entry is stored under its hex digits in
\* lower case, as many as were written, and decoding finds the entry
\* whatever the case of the digits in the program: after <S> <0041> the
\* byte that S writes decodes to "A".
C30_BfCharKeyLowerCase ==
  \A src \in SrcWords :
    program = << tokBeginBfChar, src, tok0041, tokEndBfChar >> =>
      /\ cmapPc \in {"done", "decode", "decoded"} =>
           DOMAIN cmap = {LowerHex(SubSeq(src, 2, Len(src) - 1))}
      /\ (cmapPc = "decoded" /\ decode.data = << CodeOf(src) >>) =>
           decode.result = Str(<< "A" >>)
\* The bytes of the code n written with width hex digits.
RECURSIVE CodeBytes(_, _)
CodeBytes(n, width) ==
  IF width = 0 THEN << >>
  ELSE Append(CodeBytes(n \div 256, width - 2), n % 256)

\* C31: the keys of a CMap have the width of the source codes that defined
\* them: a bfrange written with four hex digits gives keys of four hex
\* digits, and the two bytes of a code of the range decode to the code
\* point mapped to it; every key has an even number of hex digits, as many
\* as the source code has.
C31_KeysFixedWidth ==
  \A lo, hi \in {tok20, tok23, tok0020, tok0023} :
    program = << tokBeginBfRange, lo, hi, tok0041, tokEndBfRange >> =>
      /\ cmapPc \in {"done", "decode", "decoded"} =>
           \A key \in DOMAIN cmap : Len(key) % 2 = 0 /\ Len(key) = Len(lo) - 2
      /\ \A c \in CodeOf(lo)..CodeOf(hi) :
           (cmapPc = "decoded" /\ decode.data = CodeBytes(c, Len(lo) - 2)) =>
             decode.result = << 65 + (c - CodeOf(lo)) >>
\* C32: a bfrange entry with an array for destination adds no mapping,
\* however many elements the array has and whether the brackets stand apart
\* from the elements or not, and the entry after it is parsed as if the
\* array entry were not there.
C32_ArrayDestinationSkipped ==
  \A arr \in ArrayForms :
    /\ (/\ program = << tokBeginBfRange, tok20, tok23 >> \o arr \o << tokEndBfRange >>
        /\ cmapPc \in {"done", "decode", "decoded", "error"})
         => cmapPc # "error" /\ cmap = << >>
    /\ (/\ program = << tokBeginBfRange, tok20, tok23 >> \o arr \o
                       << tok20, tok20, tok0041, tokEndBfRange >>
        /\ cmapPc \in {"done", "decode", "decoded", "error"})
         => cmapPc # "error" /\ cmap = (Str(<< "2", "0" >>) :> Str(<< "A" >>))
(***************************************************************************)
(* The decoders of the single-byte encodings, DecodeWinAnsi, DecodePDFDoc  *)
(* and DecodeMacRoman, called on bytes: cmapPc names the decoder called,   *)
(* then tells that it has returned; decode holds the bytes and the text    *)
(* returned.                                                               *)
(***************************************************************************)

\* A decoder is called on data.
CallDecoder(decoder, data) ==
  /\ PipeIdle
  /\ registry = NewFontRegistry
  /\ RegistryIdle
  /\ program = << >>
  /\ cmapScanner = 0
  /\ cmap = << >>
  /\ cmapPc = decoder
  /\ cmapErr = ""
  /\ decode = [data |-> data, i |-> 0, result |-> << >>]

\* The decoder has read every byte and returns b.String().
DecoderReturn(decoder, returned, text) ==
  /\ cmapPc = decoder
  /\ cmapPc' = returned
  /\ decode' = [decode EXCEPT !.i = Len(decode.data), !.result = text]
  /\ UNCHANGED << pipevars, regvars, program, cmapScanner, cmap, cmapErr >>

WinAnsiReturn ==
  DecoderReturn("DecodeWinAnsi", "WinAnsiDecoded", DecodeWinAnsi(decode.data))

PDFDocReturn ==
  DecoderReturn("DecodePDFDoc", "PDFDocDecoded", DecodePDFDoc(decode.data))

MacRomanReturn ==
  DecoderReturn("DecodeMacRoman", "MacRomanDecoded", DecodeMacRoman(decode.data))

MaxEncodedLen == 2

\* The bytes decoded: ASCII, the ends of 0x80-0x9F, a byte without entry in
\* the table of WinAnsi, and the ends of 0xA0-0xFF.
EncodedBytes == {0, 65, 127, 128, 129, 159, 160, 255}
EncodedData == SeqsUpTo(EncodedBytes, MaxEncodedLen)

InitEncoding ==
  \E decoder \in {"DecodeWinAnsi", "DecodePDFDoc", "DecodeMacRoman"},
     data \in EncodedData : CallDecoder(decoder, data)

NextEncoding == WinAnsiReturn \/ PDFDocReturn \/ MacRomanReturn

\* The three decoders on the byte sequences above.
SpecEncoding == InitEncoding /\ [][NextEncoding]_vars

(***************************************************************************)
(* Properties of the single-byte decoders.                                 *)
(***************************************************************************)

\* The code points that the UTF-8 text s writes, in order.
RECURSIVE CodePoints(_)
CodePoints(s) ==
  IF s = << >> THEN << >>
  ELSE IF s[1] < 128 THEN << s[1] >> \o CodePoints(Tail(s))
  ELSE IF s[1] < 224
    THEN << (s[1] - 192) * 64 + (s[2] - 128) >> \o CodePoints(SubSeq(s, 3, Len(s)))
  ELSE << (s[1] - 224) * 4096 + (s[2] - 128) * 64 + (s[3] - 128) >>
         \o CodePoints(SubSeq(s, 4, Len(s)))

\* C33: each decoder writes one code point for each byte, in the order of
\* the bytes: the byte itself below 0x80; for WinAnsi the entry of the
\* CP1252 table, the byte itself when it has none; for PDFDoc the entry of
\* its table or U+FFFD in 0x80-0x9F and the byte itself from 0xA0; for
\* MacRoman the byte itself.
C33_OneCodePointPerByte ==
  LET d == decode.data
      points == CodePoints(decode.result)
  IN /\ cmapPc \in {"WinAnsiDecoded", "PDFDocDecoded", "MacRomanDecoded"} =>
          Len(points) = Len(d) /\ \A k \in 1..Len(d) : d[k] < 128 => points[k] = d[k]
     /\ cmapPc = "WinAnsiDecoded" =>
          \A k \in 1..Len(d) :
            d[k] >= 128 =>
              points[k] = IF d[k] \in DOMAIN winAnsiToUnicode
                            THEN winAnsiToUnicode[d[k]] ELSE d[k]
     /\ cmapPc = "PDFDocDecoded" =>
          \A k \in 1..Len(d) :
            /\ d[k] \in 128..159 =>
                 points[k] = IF d[k] \in DOMAIN pdfDocToUnicode
                               THEN pdfDocToUnicode[d[k]] ELSE 65533
            /\ d[k] >= 160 => points[k] = d[k]
     /\ cmapPc = "MacRomanDecoded" => \A k \in 1..Len(d) : points[k] = d[k]

\* DecodePDFDoc has decoded 80 FF, a byte of 0x80-0x9F and a byte from 0xA0
\* on: U+2022 and U+00FF.
C33_Witness ==
  /\ cmapPc = "PDFDocDecoded"
  /\ decode.data = << 128, 255 >>
  /\ decode.result = << 226, 128, 162, 195, 191 >>
(***************************************************************************)
(* Properties of the interpreter: errors, positioning, save and restore.   *)
(***************************************************************************)

\* The operation op is one that the interpreter in the state in reports an
\* error for: a text-showing operator outside a text object, Q on an empty
\* stack, Tf, Tj or TJ without its operands or with operands of another
\* type.
Erroneous(in, op) ==
  \/ ~in.inTextObject /\ op.Name \in {op_Tj, op_TJ, op_Quote, op_DQuote}
  \/ op.Name = op_Q /\ in.stateStack = << >>
  \/ op.Name = op_Tf /\ (\/ Len(op.Operands) < 2
                         \/ op.Operands[1].t # "string"
                         \/ ~operandToFloat(op.Operands[2]).ok)
  \/ op.Name = op_Tj /\ (\/ Len(op.Operands) < 1
                         \/ op.Operands[1].t \notin {"string", "bytes"})
  \/ op.Name = op_TJ /\ (Len(op.Operands) < 1 \/ op.Operands[1].t # "array")

\* C34: an operation for which the interpreter reports an error leaves the
\* TextState, the save stack, the text-object flag and the text buffer as
\* they were; the errors are those of a text-showing operator outside a
\* text object, of Q on an empty stack and of Tf, Tj and TJ with missing or
\* ill-typed operands.
C34_ErrorLeavesStateUnchanged ==
  [][opIdx' = opIdx + 1 =>
       /\ lastErr' # "" <=> Erroneous(interp, lastOp')
       /\ lastErr' # "" =>
            /\ interp'.textState = interp.textState
            /\ interp'.stateStack = interp.stateStack
            /\ interp'.inTextObject = interp.inTextObject
            /\ interp'.textBuilder = interp.textBuilder]_vars

\* Tf has just failed on a size that is no number, inside a text object,
\* with text in the buffer and a saved state on the stack.
C34_Witness ==
  /\ opSet = "state"
  /\ lastOp = Operation(op_Tf, << fontF2, textA >>)
  /\ lastErr # ""
  /\ interp.inTextObject
  /\ interp.textBuilder # << >>
  /\ interp.stateStack # << >>
  /\ interp.textState.FontName # fontF2.v
(***************************************************************************)
(* The pipeline over a reader that delivers the stream in pieces: each     *)
(* Read of the Scanner gets one byte or more of what is left (a            *)
(* bytes.Reader delivers what fits into the Scanner's buffer, any other    *)
(* io.Reader given to ProcessStream what it likes).                        *)
(***************************************************************************)

\* Scan's read step when Read delivers n bytes.
ReadChunk(s, n) ==
  [s EXCEPT !.buf = @ \o SubSeq(s.reader, 1, n),
            !.reader = SubSeq(s.reader, n + 1, Len(s.reader)),
            !.fill = FALSE]

ScanReadChunk ==
  /\ pc = "scan"
  /\ scanner.fill
  /\ IF scanner.reader = << >>
       THEN scanner' = ReadAll(scanner)
       ELSE \E n \in 1..Len(scanner.reader) : scanner' = ReadChunk(scanner, n)
  /\ UNCHANGED << libvars, stream, registry, lastSplit, operand, parser, interp, opIdx,
                  todo, lastOp, lastErr, warnings, result, saved, opSet, pc >>

\* Streams of comments, line ends, spaces and operators a, aa, ...
MaxChunkLen == 4
ChunkAlphabet == {cPercent, cLF, cSpace, Ord("a")}
ChunkStreams == SeqsUpTo(ChunkAlphabet, MaxChunkLen)

InitChunk == \E data \in ChunkStreams : CallExtract(data, NilFontRegistry)

NextChunk == ScanReadChunk \/ ScanSplit \/ ProcessNext \/ ExtractReturn

\* ExtractText over a reader that delivers the stream in pieces.
SpecChunk == InitChunk /\ [][NextChunk]_vars

(***************************************************************************)
(* Properties of the pipeline over a reader that delivers pieces.          *)
(***************************************************************************)

\* s without its comments: a comment goes from "%" up to the line end.
RECURSIVE StripComments(_, _)
StripComments(s, inComment) ==
  IF s = << >> THEN << >>
  ELSE IF s[1] \in {10, 13} THEN << s[1] >> \o StripComments(Tail(s), FALSE)
  ELSE IF inComment \/ s[1] = 37 THEN StripComments(Tail(s), TRUE)
  ELSE << s[1] >> \o StripComments(Tail(s), FALSE)

\* The words of s: the runs of bytes that are no white space.
RECURSIVE WordsOf(_, _)
WordsOf(s, word) ==
  IF s = << >> THEN IF word = << >> THEN << >> ELSE << word >>
  ELSE IF s[1] \in {9, 10, 12, 13, 32}
    THEN (IF word = << >> THEN << >> ELSE << word >>) \o WordsOf(Tail(s), << >>)
  ELSE WordsOf(Tail(s), Append(word, s[1]))

C36_FatalParseInterpretsNothing ==
  /\ parser.err # "" =>
       /\ interp = NewInterpreter
       /\ opIdx = 0
       /\ lastOp = NoOp
       /\ pc = "done" => result = NoResult
  /\ (stream \in {UnmatchedCloseStream, UnclosedArrayStream} /\ pc \in {"interp", "done"}) =>
       /\ parser.err # ""
       /\ pc = "done" => result.text = << >>

\* ExtractText has returned for BT (a) Tj ] (b) Tj ET: Parse failed at the
\* "]" after the complete (a) Tj.
C36_Witness ==
  /\ pc = "done"
  /\ stream = UnmatchedCloseStream
  /\ parser.err = "unexpected ']' outside of array"
  /\ interp.textBuilder = << >>
  /\ result.text = << >>
\* C37: T*, Td, TD and Tm do not look at the text-object flag: outside a
\* text object they report no error and do what they do inside one (T*
\* writes a line end and takes the font size off lastY; Td, TD and Tm write
\* their line end or space and set lastY), so the buffer grows outside
\* BT/ET.
C37_PositioningNotGated ==
  [][(/\ opIdx' = opIdx + 1
      /\ lastOp'.Name \in {op_Tstar, op_Td, op_TD, op_Tm})
     => LET inside == processOperation([interp EXCEPT !.inTextObject = TRUE], lastOp').in
        IN /\ lastErr' = ""
           /\ interp'.inTextObject = interp.inTextObject
           /\ interp'.textBuilder = inside.textBuilder
           /\ interp'.textState = inside.textState
           /\ interp'.stateStack = interp.stateStack
           /\ lastOp'.Name = op_Tstar =>
                /\ interp'.textBuilder = Append(interp.textBuilder, 10)
                /\ interp'.textState.LastY =
                     interp.textState.LastY - interp.textState.FontSize
           /\ lastOp' = Operation(op_Td, << Float(0), Float(-14) >>) =>
                /\ interp'.textBuilder = Append(interp.textBuilder, 10)
                /\ interp'.textState.LastY = interp.textState.LastY - 14
           /\ lastOp' = Operation(op_Td, << Float(2), Float(0) >>) =>
                /\ interp'.textBuilder = Append(interp.textBuilder, 32)
                /\ interp'.textState.LastY = interp.textState.LastY]_vars

\* Outside every text object T* and then Td 2 0 were processed: the buffer
\* holds a line end and a space, and lastY is the font size below zero.
C37_Witness ==
  /\ opSet = "state"
  /\ opIdx = 2
  /\ ~interp.inTextObject
  /\ lastOp = Operation(op_Td, << Float(2), Float(0) >>)
  /\ lastErr = ""
  /\ interp.textBuilder = << 10, 32 >>
  /\ interp.textState.LastY = -1
\* C38: BT and ET leave the save stack as it is, and q and Q leave the
\* text-object flag as it is: a Q after a BT puts back the TextState saved
\* before that BT, not the one BT has reset, and the flag stays that of the
\* last BT or ET.
C38_StackAndFlagIndependent ==
  [][opIdx' = opIdx + 1 =>
       /\ lastOp'.Name \in {op_BT, op_ET} => interp'.stateStack = interp.stateStack
       /\ lastOp'.Name \in {op_q, op_Q} =>
            interp'.inTextObject = interp.inTextObject
       /\ lastOp'.Name = op_q =>
            /\ interp'.stateStack = Append(interp.stateStack, interp.textState)
            /\ interp'.textState = interp.textState
       /\ (lastOp'.Name = op_Q /\ interp.stateStack # << >>) =>
            /\ interp'.textState = interp.stateStack[Len(interp.stateStack)]
            /\ interp'.stateStack =
                 SubSeq(interp.stateStack, 1, Len(interp.stateStack) - 1)]_vars

\* T*, q, BT and Q were processed: Q has put back the TextState that T* left
\* and q saved, which BT had reset, and the interpreter is still inside the
\* text object.
C38_Witness ==
  /\ opSet = "state"
  /\ opIdx = 4
  /\ lastOp.Name = op_Q
  /\ lastErr = ""
  /\ interp.inTextObject
  /\ interp.textState.LastY = -1
  /\ interp.stateStack = << >>
  /\ interp.textBuilder = << 10 >>
\* C39: Tj and TJ alone write the text of string operands: inside a text
\* object ' and " are taken without error, write nothing and change
\* nothing, and an operation that is neither Tj nor TJ writes at most one
\* line end or one space.
C39_QuoteOperatorsWriteNothing ==
  [][opIdx' = opIdx + 1 =>
       /\ (interp.inTextObject /\ lastOp'.Name \in {op_Quote, op_DQuote}) =>
            lastErr' = "" /\ interp' = interp
       /\ lastOp'.Name \notin {op_Tj, op_TJ} =>
            interp'.textBuilder \in {interp.textBuilder,
                                     Append(interp.textBuilder, 10),
                                     Append(interp.textBuilder, 32)}]_vars

\* BT, (a) Tj and (a) ' were processed: the buffer holds the a of Tj alone.
C39_Witness ==
  /\ opSet = "state"
  /\ opIdx = 3
  /\ interp.inTextObject
  /\ lastOp = Operation(op_Quote, << textA >>)
  /\ lastErr = ""
  /\ interp.textBuilder = textA.v
(***************************************************************************)
(* Properties of Parse: tokens that are dropped.                           *)
(***************************************************************************)

\* C40: a token that is no operator and no operand, as ", d0 and d1, is
\* dropped: no Operation is emitted for it and the operand buffer is left
\* as it is, so the operands before it become the first operands of the
\* next operator: in BT (a) Tj 2 X (b) Tj ET the second Tj gets 2 and (b).
C40_DroppedTokenKeepsOperands ==
  [][/\ (TokenRead /\ lastSplit'.tok \in DroppedTokens)
        => parser' = parser /\ pc' = "scan"
     /\ \A X \in DroppedTokens :
          (/\ pc = "scan"
           /\ pc' = "interp"
           /\ stream = OperandStream(<< Str(<< "2" >>), X, Str(<< "(", "b", ")" >>) >>, op_Tj))
          => /\ parser'.err = ""
             /\ parser'.operations =
                  << Operation(op_BT, << >>),
                     Operation(op_Tj, << String(<< 97 >>) >>),
                     Operation(op_Tj, << Float(2), String(<< 98 >>) >>),
                     Operation(op_ET, << >>) >>]_vars

\* In BT (a) Tj 2 d0 (b) Tj ET the second Tj was processed with the operands
\* 2 and (b): its first operand is the number, and it failed.
C40_Witness ==
  /\ Processed(<< Str(<< "2" >>), Str(<< "d", "0" >>), Str(<< "(", "b", ")" >>) >>, op_Tj)
  /\ lastOp.Operands = << Float(2), String(<< 98 >>) >>
  /\ lastErr # ""
  /\ interp.textBuilder = << 97 >>
=============================================================================
